---- MODULE Spec2Model ----
(***************************************************************************)
(* simpleKcpFileManager: the task manager (kcpclient/tasks/manager.go),    *)
(* the client's connect and transfer engine (kcpclient/client.go) and the  *)
(* server's upload and file handlers (server/handlers), as state machines. *)
(*                                                                         *)
(* The module holds several specifications over one set of variables; each *)
(* specification moves only the variables of its component and leaves the  *)
(* others at their initial values:                                         *)
(*   Spec          the task manager                                         *)
(*   SpecConnect   Client.Connect and Client.Close, and the operations     *)
(*                 called on the client                                     *)
(*   SpecConnectLive  SpecConnect with the fairness of timer and select     *)
(*   SpecTransfer  UploadFile then DownloadFile of one file, with the       *)
(*                 server's HandleUpload instances interleaved              *)
(*   SpecChunks    the chunk plans of the parallel upload and download      *)
(*   SpecServer    the server's request handlers over its file system       *)
(*   SpecProgress  one task of the manager with its transfer's progress     *)
(*                 reports; SpecProgressLive adds the fairness of the       *)
(*                 transfer's goroutines                                    *)
(*   SpecLive      Spec with the fairness of the workers' scheduling         *)
(*   SpecPacked    UploadFilePacked and DownloadFilePacked                  *)
(*   SpecAuto      the server's HandleUpload with X-Auto-Extract;           *)
(*                 SpecAutoLive adds the fairness of the removal goroutine  *)
(*   SpecQueue     the GUI's TaskQueue.updateLoop; SpecQueueLive adds the   *)
(*                 fairness of its ticker, loop and main thread             *)
(*   SpecTree      one upload made twice, with pack transfer disabled and   *)
(*                 enabled, each on its own copy of the server's directory  *)
(***************************************************************************)
EXTENDS Integers, Sequences, FiniteSets, TLC

VARIABLES
    \* ---- task manager (Manager, Task) ----
    maxParallel,    \* Manager.maxParallel = cap(Manager.semaphore)
    semaphore,      \* number of tokens held in Manager.semaphore
    registry,       \* Manager.tasks: registry[id] is the Task the map holds
                    \* under the ID id, 0 when it holds none
    clock,          \* what time.Now().UnixNano() returns
    removed,        \* history: the tasks whose entry RemoveTask deleted
    task,           \* task[t]: the fields of Task t
    tpc,            \* tpc[t]: position of t's run*Task goroutine
    sawCanceled,    \* tpc[t] = "store": what task.Canceled.Load() returned
    transferErr,    \* the err the transfer call of t returned
    localFile,      \* what exists at task.LocalPath of a download
    cancelRunning,  \* history: CancelTask(t) was called while t was Running
    cancelWaiting,  \* history: ... while t's worker waited for the semaphore
    \* ---- Client.Connect / Client.Close ----
    session,        \* Client.session: 0 is nil, a is the session attempt a made
    sessState,      \* sessState[a]: "none", "open" or "closed"
    attempt,        \* number of Connect calls that started a dial so far
    cpc,            \* the caller of Connect/Close: "idle", "wait" or "ret"
    outcome,        \* outcome[a]: what the Connect call of attempt a returned
    dpc,            \* dpc[a]: position of the dial goroutine of attempt a
    ctxDone,        \* ctxDone[a]: ctx.Done() of attempt a is closed
    resultCh,       \* resultCh[a]: content of the one-slot channel of attempt a
    key,            \* Client.key: the passphrase NewClient was given
    cryptBuild,     \* which of the two files of package common that define
                    \* GetBlockCrypt the program is built with
    dialed,         \* history: the attempts that called kcp.DialWithOptions
    server,         \* the peer: "ok", "wrongkey" (another passphrase: it drops
                    \* all it receives) or "unreachable"
    opc,            \* the client operation past its IsConnected check, or "idle"
    lastCall,       \* <<name, result>> of the last operation or Close that returned
    streams,        \* number of streams the operations opened for their requests
    calls,          \* number of operations and Close calls that have returned
    \* ---- Client.UploadFile / HandleUpload / Client.DownloadFile ----
    fileSize,       \* size in bytes of the local source file
    srvFile,        \* the file at remotePath under the server's root
    upc,            \* UploadFile: "idle", "spawn", "collect", "single", "done"
    upI,            \* the loop variable i of uploadFileParallel
    upResult,       \* what UploadFile returned: "none", "ok", "err"
    wpc,            \* wpc[i]: PUT of chunk i and its HandleUpload instance
    putRange,       \* putRange[i]: Content-Range of the PUT (<<>>: no header)
    locFile,        \* the file at localPath of the download
    dlpc,           \* DownloadFile: "idle", "single", "spawn", "collect",
                    \* "removeall", "rmdir", "done"
    dlI,            \* the loop variable i of downloadFileParallel
    dlResult,       \* what DownloadFile returned: "none", "ok", "err"
    gpc,            \* gpc[i]: the chunk GET of download worker i
    getRange,       \* getRange[i]: Range of the GET (<<>>: none sent)
    tmpChunk,       \* tmpChunk[i]: chunk_%04d.tmp in the temp directory
    tmpDir,         \* the temp directory .tmp_<name> exists
    getCount,       \* number of GET requests for file content sent so far
    dlCalls,        \* number of DownloadFile calls made so far
    dlOrder,        \* history: the chunk indices in the order their workers
                    \* sent to the results channel
    preLocal,       \* history: what was at localPath before any call
    faulted,        \* history: some request met an I/O or transport failure
    \* ---- the server's handlers and file system ----
    dirs,           \* the directories that exist
    files,          \* the files that exist
    reqCount,       \* number of requests served
    touched,        \* paths the last request opened, created, removed,
                    \* renamed or chmod-ed
    lastStatus,     \* HTTP status of the last answer (0: none yet)
    lastEscapes,    \* history: a path of the last request escapes the root
    lastMutated,    \* history: the last request changed the file system
    lastExtract,    \* history: the extraction the last request ran, if any
    \* ---- one task's transfer and its progress reports ----
    ptype,          \* "upload" (runUploadTask) or "download" (runDownloadTask)
    ptask,          \* the Task's fields Status, Progress, BytesDone, Error,
                    \* Canceled
    mpc,            \* position of the run*Task goroutine and the call it makes
    callErr,        \* the err the transfer call returned
    cwpc,           \* cwpc[i]: position of the worker goroutine of chunk i
    results,        \* content of the results channel, oldest first
    bytesDone,      \* the atomic bytesDone of the parallel transfer
    lastProgress,   \* lastProgress of uploadFileParallel's reporter
    progressDone,   \* the channel progressDone is closed
    clpc,           \* position of the goroutine of wg.Wait(); close(results)
    resultsCloses,  \* close(results) calls made
    doneCloses,     \* close(progressDone) calls made
    tkpc,           \* position of the progress reporter goroutine
    tkDone,         \* its local variable done
    prWritten,      \* progressReader.written of the single-stream upload
    notified,       \* number of calls of OnTaskCompleted
    atNotify,       \* history: the Task's fields when OnTaskCompleted was called
    \* ---- UploadFilePacked / DownloadFilePacked ----
    pkind,          \* "upload" (UploadFilePacked) or "download"
    config,         \* the PackTransferConfig given: Enabled, ThresholdBytes
    info,           \* what is at the source path: IsDir, Size
    kpc,            \* position of the call
    shouldCompress, \* the local variable shouldCompress
    tempFile,       \* the local temporary archive (tempFile, tempTarGz) exists
    fileOpen,       \* a handle on the local temporary archive is open
    srvArchive,     \* the server-side <remotePath>.tar.gz exists
    packErr,        \* what the call returned: "none" (not yet), "nil", "err"
    madeLocal,      \* history: the local temporary archive was created
    madeRemote,     \* history: the server-side archive was created
    removeTried,    \* history: os.Remove of the local archive was called
    deleteTried,    \* history: the DELETE of the server-side archive was sent
    removedOpen,    \* history: os.Remove was called while the handle was open
    transferred,    \* history: the archive went over and was unpacked
    \* ---- HandleUpload with X-Auto-Extract ----
    xpc,            \* xpc[h]: position of HandleUpload instance h
    xAuto,          \* xAuto[h]: autoExtract and the path ends in .tar.gz
    xOpen,          \* xOpen[h]: the instance's file handle is open
    xStatus,        \* xStatus[h]: the status it answered (0: none yet)
    xCopied,        \* xCopied[h]: outcome of io.Copy ("none": not run)
    xSynced,        \* xSynced[h]: outcome of file.Sync ("none": not run)
    xUploaded,      \* history: body written, synced and stat-ed
    xExtracted,     \* history: its DecompressFromTarGz returned nil
    arcFile,        \* the uploaded archive exists
    rmpc,           \* rmpc[h]: position of the removal goroutine h started
    rmTries,        \* rmTries[h]: os.Remove calls it has made
    rmSlept,        \* rmSlept[h]: the delays in ms that goroutine has waited
    \* ---- TaskQueue of the GUI ----
    qStatus,        \* qStatus[t]: task.Status ("none": not added yet)
    inManager,      \* inManager[t]: the manager's registry holds the task
    taskWidgets,    \* taskWidgets[t]: tq.taskWidgets holds a widget for it
    sinceUpdate,    \* sinceUpdate[t]: ticker periods since tw.lastUpdate
    sinceTerminal,  \* history: ticker periods since the task became terminal
    uiQueued,       \* uiQueued[t]: a tw.update waits for the main thread
    tickDue,        \* ticker.C holds a tick
    lpc,            \* position of updateLoop
    autoRemoved,    \* history: tasks the loop has removed
    \* ---- one upload, plain and packed ----
    tLocal,         \* the local source: its base name and its content
    tRemote,        \* the remote path's base name
    srvPlain,       \* the server directory the plain upload goes to
    srvPacked,      \* the same directory for the packed upload
    plpc,           \* position of the plain upload
    pkpc,           \* position of the packed upload and the server's removal
    packTemp        \* the client's temporary archive

mgrVars == <<maxParallel, semaphore, registry, clock, removed, task, tpc, sawCanceled,
             transferErr, localFile, cancelRunning, cancelWaiting>>

connVars == <<session, sessState, attempt, cpc, outcome, dpc, ctxDone, resultCh,
              server, opc, lastCall, streams, calls,
              key, cryptBuild, dialed>>

opVars == <<server, opc, lastCall, streams, calls>>

keyVars == <<key, cryptBuild, dialed>>

xferVars == <<fileSize, srvFile, upc, upI, upResult, wpc, putRange, locFile,
              dlpc, dlI, dlResult, gpc, getRange, tmpChunk, tmpDir, getCount,
              dlCalls, dlOrder, preLocal, faulted>>

srvVars == <<dirs, files, reqCount, touched, lastStatus, lastEscapes, lastMutated,
             lastExtract>>

chanVars == <<clpc, resultsCloses, doneCloses>>

progVars == <<ptype, ptask, mpc, callErr, cwpc, results, bytesDone, lastProgress,
              progressDone, tkpc, tkDone, prWritten, notified, atNotify, chanVars>>

packVars == <<pkind, config, info, kpc, shouldCompress, tempFile, fileOpen,
              srvArchive, packErr, madeLocal, madeRemote, removeTried,
              deleteTried, removedOpen, transferred>>

xIoVars == <<xCopied, xSynced>>

autoVars == <<xpc, xAuto, xOpen, xStatus, xIoVars, xUploaded, xExtracted, arcFile,
              rmpc, rmTries, rmSlept>>

queueVars == <<qStatus, inManager, taskWidgets, sinceUpdate, sinceTerminal,
               uiQueued, tickDue, lpc, autoRemoved>>

treeVars == <<tLocal, tRemote, srvPlain, srvPacked, plpc, pkpc, packTemp>>

vars == <<mgrVars, connVars, xferVars, srvVars, progVars, packVars, autoVars,
          queueVars, treeVars>>

\* what the actions of one component leave alone
outsideManager == <<connVars, xferVars, srvVars, progVars, packVars, autoVars, queueVars,
                 treeVars>>
outsideConnect == <<mgrVars, xferVars, srvVars, progVars, packVars, autoVars, queueVars,
                 treeVars>>
outsideTransfer == <<mgrVars, connVars, srvVars, progVars, packVars, autoVars, queueVars,
                 treeVars>>
outsideServer == <<mgrVars, connVars, xferVars, progVars, packVars, autoVars, queueVars,
                 treeVars>>
outsideProgress == <<mgrVars, connVars, xferVars, srvVars, packVars, autoVars, queueVars,
                 treeVars>>
outsideQueue == <<mgrVars, connVars, xferVars, srvVars, progVars, packVars,
                 autoVars, treeVars>>
outsideTree == <<mgrVars, connVars, xferVars, srvVars, progVars, packVars, autoVars,
                queueVars>>
outsideAuto == <<mgrVars, connVars, xferVars, srvVars, progVars, packVars, queueVars,
                 treeVars>>
outsidePacked == <<mgrVars, connVars, xferVars, srvVars, progVars, autoVars, queueVars,
                 treeVars>>

(***************************************************************************)
(* Bounds of the model.                                                    *)
(***************************************************************************)
MaxTasks == 2          \* tasks one Manager is given
MaxClock == 2          \* readings of the clock: 1 .. MaxClock
MaxLimitArg == 1       \* NewManager is called with 0 .. MaxLimitArg

MaxConnects == 2       \* Connect calls that reach the dial
MaxCalls == 2          \* client operations and Close calls

Tasks == 1..MaxTasks
ClockReadings == 1..MaxClock
Attempts == 1..MaxConnects

(***************************************************************************)
(* Task manager.                                                           *)
(***************************************************************************)
DefaultMaxParallel == 3

\* TaskType values the Add*Task calls assign (TaskTypeExtract is never assigned)
TaskTypes == {"download", "upload", "compress"}

\* TaskStatus: all six values of the enumeration
TaskStatus == {"Pending", "Running", "Paused", "Completed", "Failed", "Canceled"}

Terminal == {"Completed", "Failed", "Canceled"}

\* Task.Progress: 0 = 0.0, ProgressFull = 1.0
ProgressFull == 1

NoTask == [ID |-> 0, Type |-> "none", Status |-> "Pending", Canceled |-> FALSE,
           Error |-> FALSE, Progress |-> 0, CancelFunc |-> FALSE]

\* NewManager: maxParallel <= 0 means the default
NewManagerLimit(n) == IF n <= 0 THEN DefaultMaxParallel ELSE n

InitManager ==
    /\ \E n \in 0..MaxLimitArg : maxParallel = NewManagerLimit(n)
    /\ semaphore = 0
    /\ registry = [id \in ClockReadings |-> 0]
    /\ clock = 1
    /\ removed = {}
    /\ task = [t \in Tasks |-> NoTask]
    /\ tpc = [t \in Tasks |-> "none"]
    /\ sawCanceled = [t \in Tasks |-> FALSE]
    /\ transferErr = [t \in Tasks |-> FALSE]
    /\ localFile = [t \in Tasks |-> "absent"]
    /\ cancelRunning = [t \in Tasks |-> FALSE]
    /\ cancelWaiting = [t \in Tasks |-> FALSE]

\* generateTaskID: "<UnixNano>-<pid>"; the pid is the same for all calls of
\* one process, so the ID is the clock reading
generateTaskID == clock

\* the clock advances between two readings (or does not: its resolution is
\* coarser than the time between two calls)
Tick ==
    /\ clock < MaxClock
    /\ clock' = clock + 1
    /\ UNCHANGED <<maxParallel, semaphore, registry, removed, task, tpc,
                   sawCanceled, transferErr, localFile, cancelRunning, cancelWaiting>>
    /\ UNCHANGED outsideManager

\* the tasks the map holds
Registered == {registry[id] : id \in ClockReadings} \ {0}

\* the next Task object to be allocated (tasks are created in index order)
NextTask(t) == tpc[t] = "none" /\ \A u \in Tasks : u < t => tpc[u] # "none"

\* task := &Task{...}; m.tasks[task.ID] = task; go m.run...(task)
NewTask(t, type) ==
    /\ NextTask(t)
    /\ task' = [task EXCEPT ![t] = [NoTask EXCEPT !.ID = generateTaskID,
                                                  !.Type = type]]
    /\ registry' = [registry EXCEPT ![generateTaskID] = t]
    /\ tpc' = [tpc EXCEPT ![t] = "acquire"]
    /\ UNCHANGED <<maxParallel, clock, removed, semaphore, sawCanceled, transferErr, localFile,
                   cancelRunning, cancelWaiting>>
    /\ UNCHANGED outsideManager

AddDownloadTask(t) == NewTask(t, "download")

\* os.Stat(localPath) fails: the call returns an error and adds nothing
AddUploadTask(t, statOk) ==
    IF statOk THEN NewTask(t, "upload")
    ELSE NextTask(t) /\ UNCHANGED vars

\* filepath.Walk(localPath) fails: the call returns an error and adds nothing
AddUploadFolderTask(t, walkOk) ==
    IF walkOk THEN NewTask(t, "upload")
    ELSE NextTask(t) /\ UNCHANGED vars

AddCompressTask(t) == NewTask(t, "compress")

\* m.semaphore <- struct{}{} can proceed: the channel is not full
SemFreeNoCap == TRUE
SemFree == semaphore < maxParallel

\* m.semaphore <- struct{}{}
Acquire(t) ==
    /\ tpc[t] = "acquire"
    /\ SemFree
    /\ semaphore' = semaphore + 1
    /\ tpc' = [tpc EXCEPT ![t] = "start"]
    /\ UNCHANGED <<maxParallel, clock, removed, registry, task, sawCanceled, transferErr,
                   localFile, cancelRunning, cancelWaiting>>
    /\ UNCHANGED outsideManager

\* task.Status = StatusRunning; task.CancelFunc = cancel
SetRunning(t) ==
    /\ tpc[t] = "start"
    /\ task' = [task EXCEPT ![t].Status = "Running", ![t].CancelFunc = TRUE]
    /\ tpc' = [tpc EXCEPT ![t] = "transfer"]
    /\ UNCHANGED <<maxParallel, clock, removed, semaphore, registry, sawCanceled, transferErr,
                   localFile, cancelRunning, cancelWaiting>>
    /\ UNCHANGED outsideManager

\* what a download leaves at LocalPath: the whole file on success; nothing or
\* a partly written file on failure
DownloadOutcomes(err) == IF err THEN {"absent", "partial"} ELSE {"complete"}

\* err = m.client.DownloadFile / UploadFile / UploadFilePacked / Compress (...)
\* The context made by context.WithCancel is discarded, so the call runs to its
\* own end whether or not the task is canceled.
TransferReturns(t, err, out) ==
    /\ tpc[t] = "transfer"
    /\ transferErr' = [transferErr EXCEPT ![t] = err]
    /\ IF task[t].Type = "download"
         THEN /\ out \in DownloadOutcomes(err)
              /\ localFile' = [localFile EXCEPT ![t] = out]
         ELSE /\ out = "absent"
              /\ UNCHANGED localFile
    /\ tpc' = [tpc EXCEPT ![t] = "load"]
    /\ UNCHANGED <<maxParallel, clock, removed, semaphore, registry, task, sawCanceled,
                   cancelRunning, cancelWaiting>>
    /\ UNCHANGED outsideManager

\* if task.Canceled.Load() {
LoadCanceled(t) ==
    /\ tpc[t] = "load"
    /\ sawCanceled' = [sawCanceled EXCEPT ![t] = task[t].Canceled]
    /\ tpc' = [tpc EXCEPT ![t] = "store"]
    /\ UNCHANGED <<maxParallel, clock, removed, semaphore, registry, task, transferErr,
                   localFile, cancelRunning, cancelWaiting>>
    /\ UNCHANGED outsideManager

\* the three branches that follow the load
SetTerminal(t) ==
    /\ tpc[t] = "store"
    /\ IF sawCanceled[t]
         THEN /\ task' = [task EXCEPT ![t].Status = "Canceled"]
              \* os.Remove(task.LocalPath), downloads only
              /\ localFile' = [localFile EXCEPT
                     ![t] = IF task[t].Type = "download" THEN "absent" ELSE @]
         ELSE IF transferErr[t]
         THEN /\ task' = [task EXCEPT ![t].Status = "Failed", ![t].Error = TRUE]
              /\ UNCHANGED localFile
         ELSE /\ task' = [task EXCEPT ![t].Status = "Completed",
                                      ![t].Progress = ProgressFull]
              /\ UNCHANGED localFile
    \* err and the loaded flag are not read again
    /\ sawCanceled' = [sawCanceled EXCEPT ![t] = FALSE]
    /\ transferErr' = [transferErr EXCEPT ![t] = FALSE]
    /\ tpc' = [tpc EXCEPT ![t] = "notify"]
    /\ UNCHANGED <<maxParallel, clock, removed, semaphore, registry, cancelRunning, cancelWaiting>>
    /\ UNCHANGED outsideManager

\* if OnTaskCompleted != nil { OnTaskCompleted(task) }
Notify(t) ==
    /\ tpc[t] = "notify"
    /\ tpc' = [tpc EXCEPT ![t] = "release"]
    /\ UNCHANGED <<maxParallel, clock, removed, semaphore, registry, task, sawCanceled,
                   transferErr, localFile, cancelRunning, cancelWaiting>>
    /\ UNCHANGED outsideManager

\* defer func() { <-m.semaphore }()
ReleaseKeepsSlot(t) ==
    /\ tpc[t] = "release"
    /\ tpc' = [tpc EXCEPT ![t] = "done"]
    /\ UNCHANGED <<maxParallel, clock, removed, semaphore, registry, task,
                   sawCanceled, transferErr, localFile, cancelRunning,
                   cancelWaiting>>
    /\ UNCHANGED outsideManager

Release(t) ==
    /\ tpc[t] = "release"
    /\ semaphore' = semaphore - 1
    /\ tpc' = [tpc EXCEPT ![t] = "done"]
    /\ UNCHANGED <<maxParallel, clock, removed, registry, task, sawCanceled, transferErr,
                   localFile, cancelRunning, cancelWaiting>>
    /\ UNCHANGED outsideManager

\* CancelTask: task.Canceled.Store(true); task.CancelFunc()
CancelTaskSetsStatus(id) ==
    /\ registry[id] # 0
    /\ task' = [task EXCEPT ![registry[id]].Canceled = TRUE,
                            ![registry[id]].Status = "Canceled"]
    /\ cancelWaiting' = [cancelWaiting EXCEPT
           ![registry[id]] = @ \/ tpc[registry[id]] = "acquire"]
    /\ cancelRunning' = [cancelRunning EXCEPT
           ![registry[id]] = @ \/ task[registry[id]].Status = "Running"]
    /\ UNCHANGED <<maxParallel, clock, removed, semaphore, registry, tpc,
                   sawCanceled, transferErr, localFile>>
    /\ UNCHANGED outsideManager

CancelTask(id) ==
    /\ registry[id] # 0
    /\ task' = [task EXCEPT ![registry[id]].Canceled = TRUE]
    /\ cancelWaiting' = [cancelWaiting EXCEPT
           ![registry[id]] = @ \/ tpc[registry[id]] = "acquire"]
    /\ cancelRunning' = [cancelRunning EXCEPT
           ![registry[id]] = @ \/ task[registry[id]].Status = "Running"]
    /\ UNCHANGED <<maxParallel, clock, removed, semaphore, registry, tpc,
                   sawCanceled, transferErr, localFile>>
    /\ UNCHANGED outsideManager

\* CancelTask of an id the map does not hold: "task not found"
CancelUnknown(id) ==
    /\ registry[id] = 0
    /\ UNCHANGED mgrVars
    /\ UNCHANGED outsideManager

\* RemoveTask: delete(m.tasks, taskID)
RemoveTask(id) ==
    /\ registry[id] # 0
    /\ registry' = [registry EXCEPT ![id] = 0]
    /\ removed' = removed \cup {registry[id]}
    /\ UNCHANGED <<maxParallel, clock, semaphore, task, tpc, sawCanceled,
                   transferErr, localFile, cancelRunning, cancelWaiting>>
    /\ UNCHANGED outsideManager

NextManager ==
    \/ \E t \in Tasks : AddDownloadTask(t)
    \/ \E t \in Tasks, ok \in BOOLEAN : AddUploadTask(t, ok)
    \/ \E t \in Tasks, ok \in BOOLEAN : AddUploadFolderTask(t, ok)
    \/ \E t \in Tasks : AddCompressTask(t)
    \/ \E t \in Tasks : Acquire(t)
    \/ \E t \in Tasks : SetRunning(t)
    \/ \E t \in Tasks, err \in BOOLEAN, out \in {"absent", "partial", "complete"} :
           TransferReturns(t, err, out)
    \/ \E t \in Tasks : LoadCanceled(t)
    \/ \E t \in Tasks : SetTerminal(t)
    \/ \E t \in Tasks : Notify(t)
    \/ \E t \in Tasks : Release(t)
    \/ \E id \in ClockReadings : CancelTask(id)
    \/ \E id \in ClockReadings : CancelUnknown(id)
    \/ \E id \in ClockReadings : RemoveTask(id)
    \/ Tick


(***************************************************************************)
(* Client.Connect and Client.Close.  Each Connect that dials makes its own *)
(* context, its own one-slot result channel and its own dial goroutine;    *)
(* sessionMu is held from the start of Connect to its return, so one       *)
(* caller at a time is inside Connect or Close.                            *)
(***************************************************************************)
NoCall == <<"none", "none">>

ServerKinds == {"ok", "wrongkey", "unreachable"}

\* passphrases: none, and some passphrase
Keys == {"", "secret"}

\* package common comes in two files that both define GetBlockCrypt: one
\* with ValidateKey, one with GetEffectiveKey; the build has one of them
CryptBuilds == {"ValidateKey", "GetEffectiveKey"}

DefaultKey == "your-secret-key"

\* ValidateKey(key) returns nil
ValidateKey(k) == k # ""

GetEffectiveKey(k) == IF k = "" THEN DefaultKey ELSE k

\* what GetBlockCrypt returns: err, and the passphrase the cipher's key is
\* derived from ("" when no cipher is made)
GetBlockCrypt(build, k) ==
    IF build = "ValidateKey"
      THEN IF ValidateKey(k) THEN [err |-> FALSE, pass |-> k]
           ELSE [err |-> TRUE, pass |-> ""]
      ELSE [err |-> FALSE, pass |-> GetEffectiveKey(k)]

NewClient ==
    /\ session = 0
    /\ sessState = [a \in Attempts |-> "none"]
    /\ attempt = 0
    /\ cpc = "idle"
    /\ outcome = [a \in Attempts |-> "none"]
    /\ dpc = [a \in Attempts |-> "none"]
    /\ ctxDone = [a \in Attempts |-> FALSE]
    /\ resultCh = [a \in Attempts |-> "empty"]
    /\ opc = "idle"
    /\ lastCall = NoCall
    /\ streams = 0
    /\ calls = 0
    /\ dialed = {}

\* a new client and the peer its serverAddr names
InitConnect ==
    /\ server \in ServerKinds
    /\ key \in Keys
    /\ cryptBuild \in CryptBuilds
    /\ NewClient

\* a client that is never told to connect
IdleConnect ==
    /\ server = "ok"
    /\ key = "secret"
    /\ cryptBuild = "ValidateKey"
    /\ NewClient

\* c.session != nil && !c.session.IsClosed()
IsConnected == session # 0 /\ sessState[session] = "open"

\* Connect, already connected: return nil without dialing
ConnectAlready ==
    /\ cpc = "idle"
    /\ IsConnected
    /\ UNCHANGED connVars
    /\ UNCHANGED outsideConnect

\* Connect: context.WithTimeout, make(chan connResult, 1), go func() {...}
ConnectStart ==
    /\ cpc = "idle"
    /\ ~IsConnected
    /\ attempt < MaxConnects
    /\ attempt' = attempt + 1
    /\ dpc' = [dpc EXCEPT ![attempt + 1] = "crypt"]
    /\ cpc' = "wait"
    /\ UNCHANGED <<session, sessState, outcome, ctxDone, resultCh>>
    /\ UNCHANGED opVars
    /\ UNCHANGED keyVars
    /\ UNCHANGED outsideConnect

\* the connectionTimeout of the context expires
Timeout(a) ==
    /\ dpc[a] # "none"
    /\ ~ctxDone[a]
    /\ ctxDone' = [ctxDone EXCEPT ![a] = TRUE]
    /\ UNCHANGED <<session, sessState, attempt, cpc, outcome, dpc, resultCh>>
    /\ UNCHANGED opVars
    /\ UNCHANGED keyVars
    /\ UNCHANGED outsideConnect

\* resultCh <- connResult{err: ...}; return   (the slot is free: this is the
\* goroutine's only send)
SendErr(a, closeSession) ==
    /\ resultCh' = [resultCh EXCEPT ![a] = "err"]
    /\ dpc' = [dpc EXCEPT ![a] = "end"]
    /\ sessState' = IF closeSession THEN [sessState EXCEPT ![a] = "closed"]
                    ELSE sessState

\* common.GetBlockCrypt(c.key); kcp.DialWithOptions(...)
DialTransport(a, ok) ==
    /\ dpc[a] = "crypt"
    /\ IF GetBlockCrypt(cryptBuild, key).err
         THEN /\ ~ok
              /\ SendErr(a, FALSE)
              /\ UNCHANGED dialed
         ELSE /\ dialed' = dialed \cup {a}
              /\ IF ok THEN /\ dpc' = [dpc EXCEPT ![a] = "smux"]
                            /\ UNCHANGED <<sessState, resultCh>>
                 ELSE SendErr(a, FALSE)
    /\ UNCHANGED <<session, attempt, cpc, outcome, ctxDone>>
    /\ UNCHANGED opVars
    /\ UNCHANGED <<key, cryptBuild>>
    /\ UNCHANGED outsideConnect

\* smux.Client(kcpConn, ...): on success the session exists and is open
DialSession(a, ok) ==
    /\ dpc[a] = "smux"
    /\ IF ok THEN /\ sessState' = [sessState EXCEPT ![a] = "open"]
                  /\ dpc' = [dpc EXCEPT ![a] = "probe"]
                  /\ UNCHANGED resultCh
       ELSE SendErr(a, FALSE)
    /\ UNCHANGED <<session, attempt, cpc, outcome, ctxDone>>
    /\ UNCHANGED opVars
    /\ UNCHANGED keyVars
    /\ UNCHANGED outsideConnect

\* testStream.Read(buf) returns a byte only when the peer has answered, which
\* a peer with another passphrase or none at all never does
ReadAnsweredAlways(ok) == TRUE
ReadAnswered(ok) == ok => server = "ok"

\* session.OpenStream(); testStream.Write(HEAD ...); testStream.Read(buf):
\* any failure (for the Read: its deadline) closes the session and reports
\* the error
Probe(a, ok) ==
    /\ dpc[a] = "probe"
    /\ ReadAnswered(ok)
    /\ IF ok THEN /\ dpc' = [dpc EXCEPT ![a] = "select"]
                  /\ UNCHANGED <<sessState, resultCh>>
       ELSE SendErr(a, TRUE)
    /\ UNCHANGED <<session, attempt, cpc, outcome, ctxDone>>
    /\ UNCHANGED opVars
    /\ UNCHANGED keyVars
    /\ UNCHANGED outsideConnect

\* select { case <-ctx.Done(): session.Close(); return
DialSelectDone(a) ==
    /\ dpc[a] = "select"
    /\ ctxDone[a]
    /\ sessState' = [sessState EXCEPT ![a] = "closed"]
    /\ dpc' = [dpc EXCEPT ![a] = "end"]
    /\ UNCHANGED <<session, attempt, cpc, outcome, ctxDone, resultCh>>
    /\ UNCHANGED opVars
    /\ UNCHANGED keyVars
    /\ UNCHANGED outsideConnect

\*          case resultCh <- connResult{session: session}: }
\* The send is ready whenever the slot is free, also when ctx.Done() is
\* closed: select then takes either ready case.
DialSelectSend(a) ==
    /\ dpc[a] = "select"
    /\ resultCh[a] = "empty"
    /\ resultCh' = [resultCh EXCEPT ![a] = "session"]
    /\ dpc' = [dpc EXCEPT ![a] = "end"]
    /\ UNCHANGED <<session, sessState, attempt, cpc, outcome, ctxDone>>
    /\ UNCHANGED opVars
    /\ UNCHANGED keyVars
    /\ UNCHANGED outsideConnect

\* the deferred cancel() of Connect closes ctx.Done()
Cancelled(a) == [ctxDone EXCEPT ![a] = TRUE]

\* select { case result := <-resultCh: ... }
ConnectReceive ==
    /\ cpc = "wait"
    /\ resultCh[attempt] # "empty"
    /\ IF resultCh[attempt] = "err"
         THEN /\ outcome' = [outcome EXCEPT ![attempt] = "error"]
              /\ UNCHANGED session
         ELSE \* c.session = result.session; c.setupHTTPClient(); return nil
              /\ outcome' = [outcome EXCEPT ![attempt] = "ok"]
              /\ session' = attempt
    /\ resultCh' = [resultCh EXCEPT ![attempt] = "empty"]
    /\ ctxDone' = Cancelled(attempt)
    /\ cpc' = "ret"
    /\ UNCHANGED <<sessState, attempt, dpc>>
    /\ UNCHANGED opVars
    /\ UNCHANGED keyVars
    /\ UNCHANGED outsideConnect

\*          case <-ctx.Done(): return "connection timeout ..."
ConnectTimeout ==
    /\ cpc = "wait"
    /\ ctxDone[attempt]
    /\ outcome' = [outcome EXCEPT ![attempt] = "timeout"]
    /\ cpc' = "ret"
    /\ UNCHANGED <<session, sessState, attempt, dpc, ctxDone, resultCh>>
    /\ UNCHANGED opVars
    /\ UNCHANGED keyVars
    /\ UNCHANGED outsideConnect

\* the caller goes on after Connect has returned
ConnectReturned ==
    /\ cpc = "ret"
    /\ cpc' = "idle"
    /\ UNCHANGED <<session, sessState, attempt, outcome, dpc, ctxDone, resultCh>>
    /\ UNCHANGED opVars
    /\ UNCHANGED keyVars
    /\ UNCHANGED outsideConnect

\* Close: closes the session if there is an open one; returns nil
Close ==
    /\ cpc = "idle"
    /\ calls < MaxCalls
    /\ sessState' = IF IsConnected THEN [sessState EXCEPT ![session] = "closed"]
                    ELSE sessState
    /\ lastCall' = <<"Close", "nil">>
    /\ calls' = calls + 1
    /\ UNCHANGED <<session, attempt, cpc, outcome, dpc, ctxDone, resultCh>>
    /\ UNCHANGED <<server, opc, streams>>
    /\ UNCHANGED keyVars
    /\ UNCHANGED outsideConnect

\* the operations that start with: if !c.IsConnected() { return "not connected" }
Operations == {"ListFiles", "UploadFile", "DownloadFile", "DeleteFile",
               "CreateDirectory", "RenameFile", "Compress", "Extract"}

\* an operation is called: IsConnected (under sessionMu); not connected is
\* its error, otherwise it builds its request and hands it to httpClient
OperationStart(op) ==
    /\ opc = "idle"
    /\ cpc # "wait"
    /\ calls < MaxCalls
    /\ IF IsConnected
         THEN /\ opc' = op
              /\ UNCHANGED <<lastCall, calls>>
         ELSE /\ lastCall' = <<op, "not connected">>
              /\ calls' = calls + 1
              /\ UNCHANGED opc
    /\ UNCHANGED <<session, sessState, attempt, cpc, outcome, dpc, ctxDone,
                   resultCh, server, streams>>
    /\ UNCHANGED keyVars
    /\ UNCHANGED outsideConnect

\* the dialer of setupHTTPClient: session == nil || session.IsClosed()
DialerRefusesNilOnly == session = 0
DialerRefuses == session = 0 \/ sessState[session] # "open"

\* httpClient.Do: the transport calls the dialer (under sessionMu), which
\* refuses with "not connected" or opens a stream for the request
OperationDial ==
    /\ opc # "idle"
    /\ cpc # "wait"
    /\ IF DialerRefuses
         THEN /\ lastCall' = <<opc, "not connected">>
              /\ UNCHANGED streams
         ELSE /\ lastCall' = <<opc, "sent">>
              /\ streams' = streams + 1
    /\ calls' = calls + 1
    /\ opc' = "idle"
    /\ UNCHANGED <<session, sessState, attempt, cpc, outcome, dpc, ctxDone,
                   resultCh, server>>
    /\ UNCHANGED keyVars
    /\ UNCHANGED outsideConnect


NextConnect ==
    \/ ConnectAlready
    \/ ConnectStart
    \/ \E a \in Attempts : Timeout(a)
    \/ \E a \in Attempts, ok \in BOOLEAN : DialTransport(a, ok)
    \/ \E a \in Attempts, ok \in BOOLEAN : DialSession(a, ok)
    \/ \E a \in Attempts, ok \in BOOLEAN : Probe(a, ok)
    \/ \E a \in Attempts : DialSelectDone(a)
    \/ \E a \in Attempts : DialSelectSend(a)
    \/ ConnectReceive
    \/ ConnectTimeout
    \/ ConnectReturned
    \/ Close
    \/ \E op \in Operations : OperationStart(op)
    \/ OperationDial

(***************************************************************************)
(* File transfer: Client.UploadFile, the server's HandleUpload and         *)
(* Client.DownloadFile for one local source file and one remote path, on a *)
(* connected client.                                                       *)
(*                                                                         *)
(* File content is a sequence of runs <<tag, n>>: n bytes that are the     *)
(* source file's bytes at the same offsets ("src"), the zero bytes of a    *)
(* hole ("zero") or the bytes of an older, different file ("stale").  Runs *)
(* are kept merged, so two files are byte-identical exactly when their     *)
(* contents are equal.  The uploads and the single-stream download write  *)
(* bytes at the offset they read them from, which keeps "src" runs         *)
(* aligned; the merge of chunk files could place bytes elsewhere, and      *)
(* source bytes that lie at another offset are tagged "moved".             *)
(***************************************************************************)
MaxChunkMultiple == 9      \* SpecChunks: sizes up to 4 MiB * MaxChunkMultiple + 1
MaxTransferMultiple == 2   \* SpecTransfer: sizes up to 4 MiB * MaxTransferMultiple + 1
MaxLocalLen == 2           \* a file already at localPath has 1 .. MaxLocalLen bytes
MaxDownloads == 2          \* DownloadFile calls in one behaviour

defaultChunkSize == 4 * 1024 * 1024

\* numWorkers of uploadFileParallel; maxWorkers of downloadFileParallel is
\* the same number and its chunk arithmetic the same
numWorkers == 8

Chunks == 0..(numWorkers - 1)

Min(a, b) == IF a <= b THEN a ELSE b

Absent == [exists |-> FALSE, data |-> <<>>]

File(c) == [exists |-> TRUE, data |-> c]

\* a chunk file holds the bytes of a range of the remote file; from is the
\* offset in the remote file of its first byte
NoChunk == [exists |-> FALSE, data |-> <<>>, from |-> 0]

ChunkFile(c, from) == [exists |-> TRUE, data |-> c, from |-> from]

RECURSIVE ByteLen(_)
ByteLen(c) == IF c = <<>> THEN 0 ELSE c[1][2] + ByteLen(Tail(c))

\* the first n bytes of c
RECURSIVE Take(_, _)
Take(c, n) ==
    IF n <= 0 \/ c = <<>> THEN <<>>
    ELSE IF c[1][2] <= n THEN <<c[1]>> \o Take(Tail(c), n - c[1][2])
    ELSE << <<c[1][1], n>> >>

\* c without its first n bytes
RECURSIVE Drop(_, _)
Drop(c, n) ==
    IF c = <<>> THEN <<>>
    ELSE IF n <= 0 THEN c
    ELSE IF c[1][2] <= n THEN Drop(Tail(c), n - c[1][2])
    ELSE << <<c[1][1], c[1][2] - n>> >> \o Tail(c)

\* empty runs dropped, neighbours of one tag merged
RECURSIVE Norm(_)
Norm(c) ==
    IF c = <<>> THEN <<>>
    ELSE IF c[1][2] = 0 THEN Norm(Tail(c))
    ELSE LET r == Norm(Tail(c))
         IN IF r # <<>> /\ r[1][1] = c[1][1]
              THEN << <<c[1][1], c[1][2] + r[1][2]>> >> \o Tail(r)
              ELSE <<c[1]>> \o r

\* bytes first .. end-1 of c
Slice(c, first, end) == Take(Drop(c, first), end - first)

\* file.Seek(off); io.Copy(file, body): a seek past the end leaves a hole
WriteAt(c, off, body) ==
    Norm(Take(c, off)
         \o (IF off > ByteLen(c) THEN << <<"zero", off - ByteLen(c)>> >> ELSE <<>>)
         \o body
         \o Drop(c, off + ByteLen(body)))

\* the local source file
Original(size) == Norm(<< <<"src", size>> >>)

\* SHA-256, taken to be free of collisions
Hash(c) == <<"sha256", c>>

\* chunkSize := (fileSize + numWorkers - 1) / numWorkers, at least 4 MiB
chunkSizeFixed(size) == defaultChunkSize
chunkSize(size) ==
    LET even == (size + numWorkers - 1) \div numWorkers
    IN IF even < defaultChunkSize THEN defaultChunkSize ELSE even

\* numChunks := (fileSize + chunkSize - 1) / chunkSize
numChunks(size) == (size + chunkSize(size) - 1) \div chunkSize(size)

\* start := chunkIndex * chunkSize
chunkStart(size, i) == i * chunkSize(size)

\* end := start + chunkSize; if end > fileSize { end = fileSize }
chunkEndUnclamped(size, i) == chunkStart(size, i) + chunkSize(size)
chunkEnd(size, i) ==
    IF chunkStart(size, i) + chunkSize(size) > size THEN size
    ELSE chunkStart(size, i) + chunkSize(size)

\* fmt.Sprintf("bytes %d-%d/%d", start, end-1, fileSize)
ContentRange(start, end, size) == <<start, end - 1, size>>

\* fmt.Sprintf("bytes=%d-%d", start, end-1)
RangeHeader(start, end) == <<start, end - 1>>

\* fmt.Sscanf(contentRange, "bytes %d-%d/%d", ...): startOffset = start
StartOffset(contentRange) == IF contentRange = <<>> THEN 0 ELSE contentRange[1]

\* the body of the PUT: the chunk's LimitReader, or the whole file
PutBody(size, contentRange) ==
    IF contentRange = <<>> THEN Original(size)
    ELSE Slice(Original(size), contentRange[1], contentRange[2] + 1)

SizesUpTo(k) == {m * defaultChunkSize + d : m \in 1..k, d \in {-1, 0, 1}}

TransferSizes == {0, 1} \cup SizesUpTo(MaxTransferMultiple)

ChunkSizes == {s \in SizesUpTo(MaxChunkMultiple) : s >= defaultChunkSize}

\* what may already be at localPath: nothing, the head of an earlier
\* download of the same file, or another file
LocalStates(size) ==
    {Absent}
      \cup {File(<< <<"src", n>> >>) : n \in {m \in 1..MaxLocalLen : m <= size}}
      \cup {File(<< <<"stale", n>> >>) : n \in 1..MaxLocalLen}

IdleTransferCalls ==
    /\ upc = "idle"
    /\ upI = 0
    /\ upResult = "none"
    /\ wpc = [i \in Chunks |-> "none"]
    /\ putRange = [i \in Chunks |-> <<>>]
    /\ dlpc = "idle"
    /\ dlI = 0
    /\ dlResult = "none"
    /\ gpc = [i \in Chunks |-> "none"]
    /\ getRange = [i \in Chunks |-> <<>>]
    /\ tmpChunk = [i \in Chunks |-> NoChunk]
    /\ tmpDir = FALSE
    /\ getCount = 0
    /\ dlCalls = 0
    /\ dlOrder = <<>>
    /\ faulted = FALSE

\* a source file, an empty remote path, any state of the local target
InitTransfer ==
    /\ fileSize \in TransferSizes
    /\ srvFile = Absent
    /\ locFile \in LocalStates(fileSize)
    /\ preLocal = locFile
    /\ IdleTransferCalls

\* a source file whose copy is already on the server, no local target
InitChunks ==
    /\ fileSize \in ChunkSizes
    /\ srvFile = File(Original(fileSize))
    /\ locFile = Absent
    /\ preLocal = Absent
    /\ IdleTransferCalls

\* no transfer is ever made
IdleTransfer ==
    /\ fileSize = 0
    /\ srvFile = Absent
    /\ locFile = Absent
    /\ preLocal = Absent
    /\ IdleTransferCalls

\* UploadFile: file.Stat(); below 4 MiB uploadFileSingle sends one PUT without
\* Content-Range, otherwise uploadFileParallel starts its worker loop
UploadFile ==
    /\ upc = "idle"
    /\ dlpc = "idle"
    /\ IF fileSize < defaultChunkSize
         THEN /\ upc' = "single"
              /\ wpc' = [wpc EXCEPT ![0] = "put"]
         ELSE /\ upc' = "spawn"
              /\ UNCHANGED wpc
    /\ UNCHANGED <<fileSize, srvFile, upI, upResult, putRange, locFile, preLocal,
                   dlpc, dlI, dlResult, gpc, getRange, tmpChunk, faulted>>
    /\ UNCHANGED <<tmpDir, getCount, dlCalls, dlOrder>>
    /\ UNCHANGED outsideTransfer

\* for i := 0; i < numChunks; i++ { go func(chunkIndex) { uploadChunk(...) } }
\* one turn of the loop: the worker goroutine exists and will send its PUT
\* with this Content-Range when it is scheduled
StartUploadWorker ==
    /\ upc = "spawn"
    /\ upI < numChunks(fileSize)
    /\ putRange' = [putRange EXCEPT ![upI] =
           ContentRange(chunkStart(fileSize, upI), chunkEnd(fileSize, upI), fileSize)]
    /\ wpc' = [wpc EXCEPT ![upI] = "put"]
    /\ upI' = upI + 1
    /\ upc' = IF upI + 1 < numChunks(fileSize) THEN "spawn" ELSE "collect"
    /\ UNCHANGED <<fileSize, srvFile, upResult, locFile, preLocal, dlpc, dlI,
                   dlResult, gpc, getRange, tmpChunk, faulted>>
    /\ UNCHANGED <<tmpDir, getCount, dlCalls, dlOrder>>
    /\ UNCHANGED outsideTransfer

\* uploadChunk sends its PUT, and HandleUpload up to os.OpenFile:
\* startOffset > 0 opens O_CREATE|O_RDWR,
\* startOffset = 0 opens O_CREATE|O_WRONLY|O_TRUNC; a failure of MkdirAll or
\* OpenFile answers 500
HandleUploadOpen(i, ok) ==
    /\ wpc[i] = "put"
    /\ IF ok
         THEN /\ srvFile' = IF StartOffset(putRange[i]) > 0
                              THEN (IF srvFile.exists THEN srvFile ELSE File(<<>>))
                              ELSE File(<<>>)
              /\ wpc' = [wpc EXCEPT ![i] = "opened"]
              /\ UNCHANGED faulted
         ELSE /\ wpc' = [wpc EXCEPT ![i] = "err"]
              /\ faulted' = TRUE
              /\ UNCHANGED srvFile
    /\ UNCHANGED <<fileSize, upc, upI, upResult, putRange, locFile, preLocal,
                   dlpc, dlI, dlResult, gpc, getRange, tmpChunk>>
    /\ UNCHANGED <<tmpDir, getCount, dlCalls, dlOrder>>
    /\ UNCHANGED outsideTransfer

\* HandleUpload from file.Seek to the 200 answer: the body is written at
\* startOffset and synced; the worker then sends its chunkResult
HandleUploadCopy(i) ==
    /\ wpc[i] = "opened"
    /\ srvFile' = File(WriteAt(srvFile.data, StartOffset(putRange[i]),
                               PutBody(fileSize, putRange[i])))
    /\ wpc' = [wpc EXCEPT ![i] = "ok"]
    /\ UNCHANGED <<fileSize, upc, upI, upResult, putRange, locFile, preLocal,
                   dlpc, dlI, dlResult, gpc, getRange, tmpChunk, faulted>>
    /\ UNCHANGED <<tmpDir, getCount, dlCalls, dlOrder>>
    /\ UNCHANGED outsideTransfer

\* uploadFileSingle returns: nil on status 200, an error otherwise
UploadSingleReturns ==
    /\ upc = "single"
    /\ wpc[0] \in {"ok", "err"}
    /\ upResult' = wpc[0]
    /\ upc' = "done"
    /\ UNCHANGED <<fileSize, srvFile, upI, wpc, putRange, locFile, preLocal,
                   dlpc, dlI, dlResult, gpc, getRange, tmpChunk, faulted>>
    /\ UNCHANGED <<tmpDir, getCount, dlCalls, dlOrder>>
    /\ UNCHANGED outsideTransfer

\* for result := range results: the first failed chunk ends the call with an
\* error (the other workers run on); all chunks done without one ends it nil
UploadCollect ==
    /\ upc = "collect"
    /\ \/ /\ \E i \in Chunks : wpc[i] = "err"
          /\ upResult' = "err"
       \/ /\ \A i \in 0..(numChunks(fileSize) - 1) : wpc[i] = "ok"
          /\ upResult' = "ok"
    /\ upc' = "done"
    /\ UNCHANGED <<fileSize, srvFile, upI, wpc, putRange, locFile, preLocal,
                   dlpc, dlI, dlResult, gpc, getRange, tmpChunk, faulted>>
    /\ UNCHANGED <<tmpDir, getCount, dlCalls, dlOrder>>
    /\ UNCHANGED outsideTransfer

\* no PUT is in flight and no HandleUpload instance is running
Quiet == \A i \in Chunks : wpc[i] \in {"none", "ok", "err"}

\* Content-Length of the HEAD answer of http.FileServer: the file's size, or
\* unknown (-1) with the 404 of a missing file
HeadLength(f) == IF f.exists THEN ByteLen(f.data) ELSE -1

\* the answer of ?action=checksum: the hash, or the text of the 404
RemoteChecksum(f) == IF f.exists THEN Hash(f.data) ELSE <<"File not found or unreadable">>

\* verifyChecksum: "checksum mismatch" unless the two hashes are equal
verifyChecksum(remote, local) ==
    IF RemoteChecksum(remote) = Hash(local) THEN "ok" ELSE "err"

\* the bytes http.FileServer answers a Range: bytes=first-last with
RangeBody(c, first, last) == Slice(c, first, Min(last + 1, ByteLen(c)))

\* DownloadFile: HEAD; a size <= 0 is "unknown file size"; below 4 MiB
\* downloadFileSingle, otherwise downloadFileParallel, which removes and
\* makes its temp directory and starts its worker loop.  It is called while
\* no upload of the path is running, so the remote file stays as it is, and
\* called again only when the workers of the call before have finished.
DownloadFile ==
    /\ dlpc \in {"idle", "done"}
    /\ dlCalls < MaxDownloads
    /\ upc \in {"idle", "done"}
    /\ Quiet
    /\ \A i \in Chunks : gpc[i] \in {"none", "ok", "err"}
    /\ dlCalls' = dlCalls + 1
    /\ dlI' = 0
    /\ gpc' = [i \in Chunks |-> "none"]
    /\ getRange' = [i \in Chunks |-> <<>>]
    /\ dlOrder' = <<>>
    /\ IF HeadLength(srvFile) <= 0
         THEN /\ dlpc' = "done"
              /\ dlResult' = "err"
              /\ UNCHANGED <<tmpDir, tmpChunk>>
         ELSE IF HeadLength(srvFile) < defaultChunkSize
         THEN /\ dlpc' = "single"
              /\ dlResult' = "none"
              /\ UNCHANGED <<tmpDir, tmpChunk>>
         ELSE /\ dlpc' = "spawn"
              /\ dlResult' = "none"
              /\ tmpDir' = TRUE
              /\ tmpChunk' = [i \in Chunks |-> NoChunk]
    /\ UNCHANGED <<fileSize, srvFile, upc, upI, upResult, wpc, putRange, locFile,
                   preLocal, getCount, faulted>>
    /\ UNCHANGED outsideTransfer

\* if startByte >= fileSize { return nil }
AlreadyCompleteStrict(startByte, size) == startByte > size
AlreadyComplete(startByte, size) == startByte >= size

\* req.Header.Set("Range", fmt.Sprintf("bytes=%d-", startByte))
RangeFromZero(startByte) == <<0>>
RangeFrom(startByte) == <<startByte>>

\* the bytes http.FileServer answers a Range: bytes=first- with
RangeFromBody(c, r) == Drop(c, r[1])

\* downloadFileSingle: startByte is the size of the file at localPath (0 when
\* there is none); when the file is already complete the call returns nil at
\* once; otherwise the file is opened (truncated when startByte = 0), the
\* bytes from startByte on are requested with one GET and written at
\* startByte, and verifyChecksum decides.  A read error leaves what was
\* written so far and returns the error.
DownloadFileSingle(readFails) ==
    /\ dlpc = "single"
    /\ LET startByte == IF locFile.exists THEN ByteLen(locFile.data) ELSE 0
           size == HeadLength(srvFile)
           opened == IF startByte > 0 THEN locFile.data ELSE <<>>
           range == IF startByte > 0 THEN RangeFrom(startByte) ELSE <<>>
           body == IF range = <<>> THEN srvFile.data
                   ELSE RangeFromBody(srvFile.data, range)
           got == IF readFails THEN Take(body, ByteLen(body) \div 2) ELSE body
           written == WriteAt(opened, startByte, got)
       IN IF AlreadyComplete(startByte, size)
            THEN /\ ~readFails
                 /\ dlResult' = "ok"
                 /\ UNCHANGED <<locFile, faulted, getCount, getRange>>
            ELSE /\ locFile' = File(written)
                 /\ getRange' = [getRange EXCEPT ![0] = range]
                 /\ getCount' = getCount + 1
                 /\ dlResult' = IF readFails THEN "err"
                                ELSE verifyChecksum(srvFile, written)
                 /\ faulted' = (faulted \/ readFails)
    /\ dlpc' = "done"
    /\ UNCHANGED <<fileSize, srvFile, upc, upI, upResult, wpc, putRange,
                   preLocal, dlI, gpc, tmpChunk, tmpDir, dlCalls, dlOrder>>
    /\ UNCHANGED outsideTransfer

\* for i := 0; i < numChunks; i++ { go func(chunkIndex) {
\*     downloadChunkToFile(...) } }: one turn of the loop, the worker
\* goroutine exists and will send its GET with this Range when it is
\* scheduled (the 8 slots of the local semaphore never run out: there are at
\* most 8 chunks)
StartDownloadWorker ==
    /\ dlpc = "spawn"
    /\ dlI < numChunks(HeadLength(srvFile))
    /\ getRange' = [getRange EXCEPT ![dlI] =
           RangeHeader(chunkStart(HeadLength(srvFile), dlI),
                       chunkEnd(HeadLength(srvFile), dlI))]
    /\ gpc' = [gpc EXCEPT ![dlI] = "get"]
    /\ getCount' = getCount + 1
    /\ dlI' = dlI + 1
    /\ dlpc' = IF dlI + 1 < numChunks(HeadLength(srvFile)) THEN "spawn"
               ELSE "collect"
    /\ UNCHANGED <<fileSize, srvFile, upc, upI, upResult, wpc, putRange, locFile,
                   preLocal, dlResult, tmpChunk, tmpDir, dlCalls, dlOrder,
                   faulted>>
    /\ UNCHANGED outsideTransfer

\* downloadChunkToFile up to os.Create: a transport error or a bad status is
\* the worker's error; os.Create makes the empty chunk file, and fails when
\* the temp directory does not exist.  The worker runs whether or not
\* downloadFileParallel has returned.
DownloadChunkToFile(i, ok) ==
    /\ gpc[i] = "get"
    /\ IF ok /\ tmpDir
         THEN /\ tmpChunk' = [tmpChunk EXCEPT ![i] = ChunkFile(<<>>, getRange[i][1])]
              /\ gpc' = [gpc EXCEPT ![i] = "created"]
              /\ UNCHANGED <<faulted, dlOrder>>
         ELSE /\ gpc' = [gpc EXCEPT ![i] = "err"]
              /\ dlOrder' = Append(dlOrder, i)
              /\ faulted' = TRUE
              /\ UNCHANGED tmpChunk
    /\ UNCHANGED <<fileSize, srvFile, upc, upI, upResult, wpc, putRange, locFile,
                   preLocal, dlpc, dlI, dlResult, getRange, tmpDir, getCount,
                   dlCalls>>
    /\ UNCHANGED outsideTransfer

\* downloadChunkToFile from io.Copy on, and the worker's send to results: the
\* body goes to the open chunk file (to nowhere one can see when the file
\* has been unlinked meanwhile); a read error ends the copy half way
DownloadChunkCopy(i, ok) ==
    /\ gpc[i] = "created"
    /\ LET body == RangeBody(srvFile.data, getRange[i][1], getRange[i][2])
           got == IF ok THEN body ELSE Take(body, ByteLen(body) \div 2)
       IN tmpChunk' = [tmpChunk EXCEPT ![i] =
              IF @.exists THEN ChunkFile(got, @.from) ELSE @]
    /\ gpc' = [gpc EXCEPT ![i] = IF ok THEN "ok" ELSE "err"]
    /\ dlOrder' = Append(dlOrder, i)
    /\ faulted' = (faulted \/ ~ok)
    /\ UNCHANGED <<fileSize, srvFile, upc, upI, upResult, wpc, putRange, locFile,
                   preLocal, dlpc, dlI, dlResult, getRange, tmpDir, getCount,
                   dlCalls>>
    /\ UNCHANGED outsideTransfer

\* the bytes of chunk file f as they come to lie at offset pos of the final
\* file: the remote file's bytes of that offset when f starts there, bytes
\* of another place of the remote file otherwise
Placed(f, pos) ==
    IF f.from = pos THEN f.data
    ELSE [k \in 1..Len(f.data) |->
             <<IF f.data[k][1] = "src" THEN "moved" ELSE f.data[k][1], f.data[k][2]>>]

\* the chunk files written to the final file one after the other, in the
\* order given
RECURSIVE MergeSeq(_, _)
MergeSeq(tmp, order) ==
    IF order = <<>> THEN <<>>
    ELSE LET head == MergeSeq(tmp, SubSeq(order, 1, Len(order) - 1))
         IN head \o Placed(tmp[order[Len(order)]], ByteLen(head))

\* mergeChunks: for i := 0; i < numChunks; i++ { ... outFile.Write(data) }
MergedDescending(tmp, n) == Norm(MergeSeq(tmp, [k \in 1..n |-> n - k]))
Merged(tmp, n) == Norm(MergeSeq(tmp, [k \in 1..n |-> k - 1]))

\* downloadFileParallel after its loop: the first failed chunk ends the call
\* with an error; with every result in and none failed, mergeChunks creates
\* the final file from the chunk files in index order (a chunk file that
\* cannot be read removes the final file and is the error) and
\* verifyChecksum decides.
DownloadCollect ==
    /\ dlpc = "collect"
    /\ \/ /\ \E i \in Chunks : gpc[i] = "err"
          /\ dlResult' = "err"
          /\ UNCHANGED locFile
       \/ /\ \A i \in 0..(numChunks(HeadLength(srvFile)) - 1) : gpc[i] = "ok"
          /\ LET n == numChunks(HeadLength(srvFile))
                 merged == Merged(tmpChunk, n)
             IN IF \A i \in 0..(n - 1) : tmpChunk[i].exists
                  THEN /\ locFile' = File(merged)
                       /\ dlResult' = verifyChecksum(srvFile, merged)
                  ELSE /\ locFile' = Absent
                       /\ dlResult' = "err"
    /\ dlpc' = "removeall"
    /\ UNCHANGED <<fileSize, srvFile, upc, upI, upResult, wpc, putRange,
                   preLocal, dlI, gpc, getRange, tmpChunk, tmpDir, getCount,
                   dlCalls, dlOrder, faulted>>
    /\ UNCHANGED outsideTransfer

\* defer os.RemoveAll(tempDir), first part: the directory is read and the
\* entries found are unlinked
RemoveAllEntries ==
    /\ dlpc = "removeall"
    /\ tmpChunk' = [i \in Chunks |-> NoChunk]
    /\ dlpc' = "rmdir"
    /\ UNCHANGED <<fileSize, srvFile, upc, upI, upResult, wpc, putRange, locFile,
                   preLocal, dlI, dlResult, gpc, getRange, tmpDir, getCount,
                   dlCalls, dlOrder, faulted>>
    /\ UNCHANGED outsideTransfer

\* defer os.RemoveAll(tempDir), second part: the directory itself is removed,
\* which fails when it is not empty; the error is dropped and
\* downloadFileParallel returns
RemoveAllDir ==
    /\ dlpc = "rmdir"
    /\ tmpDir' = (\E i \in Chunks : tmpChunk[i].exists)
    /\ dlpc' = "done"
    /\ UNCHANGED <<fileSize, srvFile, upc, upI, upResult, wpc, putRange, locFile,
                   preLocal, dlI, dlResult, gpc, getRange, tmpChunk, getCount,
                   dlCalls, dlOrder, faulted>>
    /\ UNCHANGED outsideTransfer

NextChunks ==
    \/ UploadFile
    \/ StartUploadWorker
    \/ DownloadFile
    \/ StartDownloadWorker

NextTransfer ==
    \/ UploadFile
    \/ StartUploadWorker
    \/ \E i \in Chunks, ok \in BOOLEAN : HandleUploadOpen(i, ok)
    \/ \E i \in Chunks : HandleUploadCopy(i)
    \/ UploadSingleReturns
    \/ UploadCollect
    \/ DownloadFile
    \/ \E readFails \in BOOLEAN : DownloadFileSingle(readFails)
    \/ StartDownloadWorker
    \/ \E i \in Chunks, ok \in BOOLEAN : DownloadChunkToFile(i, ok)
    \/ \E i \in Chunks, ok \in BOOLEAN : DownloadChunkCopy(i, ok)
    \/ DownloadCollect
    \/ RemoveAllEntries
    \/ RemoveAllDir

(***************************************************************************)
(* The server's request handlers and the file system they act on.          *)
(*                                                                         *)
(* A path is the sequence of its elements: <<"srv", "data">> is /srv/data  *)
(* and <<>> is /.  A request path is the sequence of the "/"-separated     *)
(* elements of the string the client sent, <<>> being the empty string;    *)
(* "." and ".." elements are kept as sent.  The file system is the set of  *)
(* directories and the set of files that exist; symbolic links are not     *)
(* modelled.  Each handler is one action: from the request to the answer.  *)
(***************************************************************************)
MaxRequests == 2      \* requests served in one behaviour

rootDir == <<"srv", "data">>

\* the request path strings the clients send
ReqPaths ==
    { <<>>, <<".">>, <<"a">>, <<"a", "b">>, <<"p.tar.gz">>, <<"q.zip">>,
      <<"..">>, <<"..", "x">>, <<"a", "..", "..", "x">>,
      <<"..", "..", "srv", "x">>, <<"..", "data", "a">> }

\* the second path of a request that carries two (new, output, dest)
SecondPaths == { <<>>, <<".">>, <<"b">>, <<"..", "x">> }

\* an archive holds no entry or one regular file of this name
NoEntry == <<>>

EntryNames == { NoEntry, <<"a">>, <<"..", "x">> }

\* filepath.Ext of a path element
Ext(name) ==
    CASE name = "p.tar.gz" -> ".gz"
      [] name = "q.zip" -> ".zip"
      [] name \in {".", ".."} -> "."
      [] OTHER -> ""

\* the element without its Ext ("." stands for the empty element left of ".")
Stem(name) ==
    CASE name = "p.tar.gz" -> "p.tar"
      [] name = "q.zip" -> "q"
      [] name \in {".", ".."} -> "."
      [] OTHER -> name

\* strings.HasSuffix(cleanPath, ".tar.gz")
HasTarGzSuffix(p) == p # <<>> /\ p[Len(p)] = "p.tar.gz"

\* HasPrefix(absPath, absRoot + separator) || absPath == absRoot
IsUnder(p, r) == Len(p) >= Len(r) /\ SubSeq(p, 1, Len(r)) = r

\* filepath.Dir
Dir(p) == IF p = <<>> THEN <<>> ELSE SubSeq(p, 1, Len(p) - 1)

\* lexical processing of the elements of p on top of an absolute path: "."
\* is dropped, ".." removes the last element (none at /), a name is added
RECURSIVE Resolve(_, _)
Resolve(stack, p) ==
    IF p = <<>> THEN stack
    ELSE Resolve(IF Head(p) = "." THEN stack
                 ELSE IF Head(p) = ".." THEN Dir(stack)
                 ELSE Append(stack, Head(p)),
                 Tail(p))

\* path.Clean("/" + requestPath)
pathClean(p) == Resolve(<<>>, p)

\* filepath.Join(base, p), base absolute
filepathJoin(base, p) == Resolve(base, p)

\* FileHandler.isPathSafe
isPathSafeJoinOnly(requestPath) ==
    [path |-> filepathJoin(rootDir, requestPath), safe |-> TRUE]
isPathSafe(requestPath) ==
    LET fullPath == filepathJoin(rootDir, pathClean(requestPath))
    IN [path |-> fullPath, safe |-> IsUnder(fullPath, rootDir)]

\* isPathSafe of the server's main package (the checksum route)
mainIsPathSafe(root, requestPath) ==
    LET fullPath == filepathJoin(root, pathClean(requestPath))
    IN [path |-> fullPath, safe |-> IsUnder(fullPath, root)]

\* FileHandler.cleanRelPath
cleanRelPath(rel) ==
    IF rel = <<>> THEN <<>>
    ELSE LET clean == pathClean(rel)
         IN IF \E k \in 1..Len(clean) : clean[k] = ".." THEN <<>> ELSE clean

\* the request path, taken relative to the root without being cleaned first,
\* leaves the root
Escapes(requestPath) == ~IsUnder(filepathJoin(rootDir, requestPath), rootDir)

Prefixes(p) == {SubSeq(p, 1, k) : k \in 0..Len(p)}

\* p and everything below it
Tree(d, f, p) == {q \in d \cup f : IsUnder(q, p)}

\* os.MkdirAll(p) succeeds unless p or one of its ancestors is a file, and
\* creates the directories among them that do not exist
MkdirAllOk(f, p) == Prefixes(p) \cap f = {}

MkdirAllNew(d, p) == Prefixes(p) \ d

\* extractTarFile: the entry's path is joined to dest and must stay below it;
\* then MkdirAll of its directory and OpenFile(O_CREATE|O_TRUNC)
extractTarFileUnchecked(d, f, dest, entry) ==
    LET path == filepathJoin(dest, entry)
        made == MkdirAllNew(d, Dir(path))
    IN IF ~MkdirAllOk(f, Dir(path))
         THEN [ok |-> FALSE, dirs |-> d, files |-> f, touched |-> {}]
       ELSE IF path \in d \cup made
         THEN [ok |-> FALSE, dirs |-> d \cup made, files |-> f,
               touched |-> made \cup {path}]
       ELSE [ok |-> TRUE, dirs |-> d \cup made, files |-> f \cup {path},
             touched |-> made \cup {path}]
extractTarFile(d, f, dest, entry) ==
    LET path == filepathJoin(dest, entry)
        made == MkdirAllNew(d, Dir(path))
    IN IF ~IsUnder(path, dest) \/ ~MkdirAllOk(f, Dir(path))
         THEN [ok |-> FALSE, dirs |-> d, files |-> f, touched |-> {}]
       ELSE IF path \in d \cup made
         THEN [ok |-> FALSE, dirs |-> d \cup made, files |-> f,
               touched |-> made \cup {path}]
       ELSE [ok |-> TRUE, dirs |-> d \cup made, files |-> f \cup {path},
             touched |-> made \cup {path}]

\* compress.ExtractTar: os.Open(archive), then every entry
ExtractTar(d, f, archive, dest, entry) ==
    IF archive \notin f
      THEN [ok |-> FALSE, dirs |-> d, files |-> f,
            touched |-> {archive} \cap d]
    ELSE IF entry = NoEntry
      THEN [ok |-> TRUE, dirs |-> d, files |-> f, touched |-> {archive}]
    ELSE LET r == extractTarFile(d, f, dest, entry)
         IN [r EXCEPT !.touched = @ \cup {archive}]

\* compress.ExtractZip
ExtractZip(d, f, archive, dest, entry) == ExtractTar(d, f, archive, dest, entry)

\* common.DecompressFromTarGz: os.Open(srcPath), MkdirAll(dstPath), then for
\* every entry the tar-slip check, MkdirAll of its directory and OpenFile
DecompressFromTarGz(d, f, srcPath, dstPath, entry) ==
    LET targetPath == filepathJoin(dstPath, entry)
        dst == MkdirAllNew(d, dstPath)
        made == MkdirAllNew(d \cup dst, Dir(targetPath))
    IN IF srcPath \notin f \/ ~MkdirAllOk(f, dstPath)
         THEN [ok |-> FALSE, dirs |-> d, files |-> f, touched |-> {srcPath} \cap d]
       ELSE IF entry = NoEntry
         THEN [ok |-> TRUE, dirs |-> d \cup dst, files |-> f,
               touched |-> dst \cup {srcPath}]
       ELSE IF ~IsUnder(targetPath, dstPath) \/ ~MkdirAllOk(f, Dir(targetPath))
         THEN [ok |-> FALSE, dirs |-> d \cup dst, files |-> f,
               touched |-> dst \cup {srcPath}]
       ELSE IF targetPath \in d \cup dst \cup made
         THEN [ok |-> FALSE, dirs |-> d \cup dst \cup made, files |-> f,
               touched |-> dst \cup made \cup {srcPath, targetPath}]
       ELSE [ok |-> TRUE, dirs |-> d \cup dst \cup made,
             files |-> f \cup {targetPath},
             touched |-> dst \cup made \cup {srcPath, targetPath}]

\* compress.CreateTar / CreateTarGz: os.Create(output), then the walk over
\* source opens every file below it
CreateTar(d, f, output, source) ==
    IF output \in d \/ Dir(output) \notin d
      THEN [ok |-> FALSE, files |-> f, touched |-> {output}]
    ELSE IF source \notin d \cup f
      THEN [ok |-> FALSE, files |-> f \cup {output}, touched |-> {output}]
    ELSE [ok |-> TRUE, files |-> f \cup {output},
          touched |-> {output} \cup (Tree(d, f \cup {output}, source) \ d)]

\* compress.CreateZip
CreateZip(d, f, output, source) == CreateTar(d, f, output, source)

\* compress.CreateGzip: os.Create(output), os.Open(source), io.Copy
CreateGzip(d, f, output, source) ==
    IF output \in d \/ Dir(output) \notin d
      THEN [ok |-> FALSE, files |-> f, touched |-> {output}]
    ELSE IF source \notin f
      THEN [ok |-> FALSE, files |-> f \cup {output},
            touched |-> {output} \cup ({source} \cap d)]
    ELSE [ok |-> TRUE, files |-> f \cup {output}, touched |-> {output, source}]

\* paths outside the root, the same in every initial state
OutsideDirs == { <<>>, <<"srv">> }

OutsideFiles == { <<"srv", "x">> }

InitServerFs ==
    \/ /\ dirs = OutsideDirs \cup {rootDir}
       /\ files = OutsideFiles
    \/ /\ dirs = OutsideDirs \cup {rootDir, rootDir \o <<"a">>}
       /\ files = OutsideFiles \cup {rootDir \o <<"a", "b">>, rootDir \o <<"x">>,
                                    rootDir \o <<"p.tar.gz">>, rootDir \o <<"q.zip">>}
    \/ /\ dirs = OutsideDirs
       /\ files = OutsideFiles

\* the request ran no extraction
NoExtraction == [ran |-> FALSE, dest |-> <<>>, entry |-> <<>>, ok |-> FALSE]

\* the request extracted an archive holding entry into dest
Extraction(dest, entry, ok) == [ran |-> TRUE, dest |-> dest, entry |-> entry, ok |-> ok]

NoRequestYet ==
    /\ reqCount = 0
    /\ touched = {}
    /\ lastStatus = 0
    /\ lastEscapes = FALSE
    /\ lastMutated = FALSE
    /\ lastExtract = NoExtraction

InitServer == InitServerFs /\ NoRequestYet

\* a server no request is ever sent to
IdleServer ==
    /\ dirs = OutsideDirs \cup {rootDir}
    /\ files = OutsideFiles
    /\ NoRequestYet

\* one request served: the answer's status, the file system it leaves, the
\* paths it opened, created, removed, renamed or chmod-ed
ServeExtracting(reqs, status, newDirs, newFiles, paths, mutated, extraction) ==
    /\ reqCount' = reqCount + 1
    /\ lastExtract' = extraction
    /\ dirs' = newDirs
    /\ files' = newFiles
    /\ touched' = paths
    /\ lastStatus' = status
    /\ lastEscapes' = \E r \in reqs : Escapes(r)
    /\ lastMutated' = mutated
    /\ UNCHANGED outsideServer

Serve(reqs, status, newDirs, newFiles, paths, mutated) ==
    ServeExtracting(reqs, status, newDirs, newFiles, paths, mutated, NoExtraction)

\* http.Error before any file system call
Refuse(reqs, status) == Serve(reqs, status, dirs, files, {}, FALSE)

\* any handler, request with a method it does not accept: 405
MethodNotAllowed(req) ==
    /\ reqCount < MaxRequests
    /\ Refuse({req}, 405)

\* FileHandler.HandleList / ListFiles
HandleList(rel, recursive) ==
    /\ reqCount < MaxRequests
    /\ LET s == isPathSafe(cleanRelPath(rel))
           target == s.path
       IN IF ~s.safe THEN Refuse({rel}, 500)
          ELSE IF recursive
            THEN IF target \notin dirs \cup files THEN Refuse({rel}, 500)
                 ELSE Serve({rel}, 200, dirs, files, Tree(dirs, {}, target), FALSE)
          ELSE IF target \notin dirs
            THEN Serve({rel}, 500, dirs, files, {target} \cap files, FALSE)
          ELSE Serve({rel}, 200, dirs, files, {target}, FALSE)

\* FileHandler.HandleDelete
HandleDelete(req) ==
    /\ reqCount < MaxRequests
    /\ LET s == isPathSafe(req)
           cleanPath == s.path
           gone == Tree(dirs, files, cleanPath)
       IN IF ~s.safe THEN Refuse({req}, 400)
          ELSE IF cleanPath \notin dirs \cup files THEN Refuse({req}, 404)
          ELSE Serve({req}, 200, dirs \ gone, files \ gone, gone, TRUE)

\* FileHandler.HandleMkdir
HandleMkdir(req) ==
    /\ reqCount < MaxRequests
    /\ LET s == isPathSafe(req)
           cleanPath == s.path
           made == MkdirAllNew(dirs, cleanPath)
       IN IF ~s.safe THEN Refuse({req}, 400)
          ELSE IF ~MkdirAllOk(files, cleanPath) THEN Refuse({req}, 500)
          ELSE Serve({req}, 201, dirs \cup made, files, made, made # {})

\* os.Rename(old, new) of an existing old succeeds
RenameOk(d, f, old, new) ==
    /\ Dir(new) \in d
    /\ old \in d => /\ ~(IsUnder(new, old) /\ new # old)
                    /\ new \notin f
                    /\ new \in d => (Tree(d, f, new) = {new} \/ new = old)
    /\ old \in f => new \notin d

\* FileHandler.HandleRename
HandleRename(old, new) ==
    /\ reqCount < MaxRequests
    /\ LET so == isPathSafe(old)
           sn == isPathSafe(new)
           o == so.path
           n == sn.path
           moved == Tree(dirs, files, o)
           Moved(q) == n \o SubSeq(q, Len(o) + 1, Len(q))
       IN IF old = <<>> \/ new = <<>> THEN Refuse({old, new}, 400)
          ELSE IF ~so.safe \/ ~sn.safe THEN Refuse({old, new}, 400)
          ELSE IF o \notin dirs \cup files THEN Refuse({old, new}, 404)
          ELSE IF ~RenameOk(dirs, files, o, n)
            THEN Serve({old, new}, 500, dirs, files, {o, n}, FALSE)
          ELSE Serve({old, new}, 200,
                     ((dirs \ moved) \ {n}) \cup {Moved(q) : q \in moved \cap dirs},
                     ((files \ moved) \ {n}) \cup {Moved(q) : q \in moved \cap files},
                     {o, n}, o # n)

\* FileHandler.HandleStat (os.Stat only)
HandleStat(req) ==
    /\ reqCount < MaxRequests
    /\ LET s == isPathSafe(req)
       IN IF req = <<>> \/ ~s.safe THEN Refuse({req}, 400)
          ELSE IF s.path \notin dirs \cup files THEN Refuse({req}, 404)
          ELSE Serve({req}, 200, dirs, files, {}, FALSE)

\* FileHandler.HandleChmod
HandleChmod(req, modeOk) ==
    /\ reqCount < MaxRequests
    /\ LET s == isPathSafe(req)
       IN IF req = <<>> \/ ~s.safe \/ ~modeOk THEN Refuse({req}, 400)
          ELSE IF s.path \notin dirs \cup files THEN Refuse({req}, 404)
          ELSE Serve({req}, 200, dirs, files, {s.path}, TRUE)

\* handleChecksum / getFileChecksum (the path is the URL's)
handleChecksum(req) ==
    /\ reqCount < MaxRequests
    /\ LET s == mainIsPathSafe(rootDir, req)
       IN IF ~s.safe THEN Refuse({req}, 400)
          ELSE IF s.path \notin files
            THEN Serve({req}, 404, dirs, files, {s.path} \cap dirs, FALSE)
          ELSE Serve({req}, 200, dirs, files, {s.path}, FALSE)

\* UploadHandler.HandleUpload: MkdirAll of the directory, OpenFile, copy; with
\* X-Auto-Extract and a .tar.gz name the archive is unpacked next to itself
\* and then removed
HandleUpload(req, autoExtract, entry) ==
    /\ reqCount < MaxRequests
    /\ LET s == isPathSafe(req)
           cleanPath == s.path
           made == MkdirAllNew(dirs, Dir(cleanPath))
           d1 == dirs \cup made
           f1 == files \cup {cleanPath}
           x == DecompressFromTarGz(d1, f1, cleanPath, Dir(cleanPath), entry)
       IN IF req = <<>> \/ ~s.safe THEN Refuse({req}, 400)
          ELSE IF ~MkdirAllOk(files, Dir(cleanPath)) THEN Refuse({req}, 500)
          ELSE IF cleanPath \in d1
            THEN Serve({req}, 500, d1, files, made \cup {cleanPath}, made # {})
          ELSE IF ~(autoExtract /\ HasTarGzSuffix(cleanPath))
            THEN /\ entry = NoEntry
                 /\ Serve({req}, 200, d1, f1, made \cup {cleanPath}, TRUE)
          ELSE IF ~x.ok
            THEN ServeExtracting({req}, 500, x.dirs, x.files,
                                 made \cup {cleanPath} \cup x.touched, TRUE,
                                 Extraction(Dir(cleanPath), entry, FALSE))
          ELSE ServeExtracting({req}, 200, x.dirs, x.files \ {cleanPath},
                               made \cup {cleanPath} \cup x.touched, TRUE,
                               Extraction(Dir(cleanPath), entry, TRUE))

\* EditHandler.HandleGetFile
HandleGetFile(req) ==
    /\ reqCount < MaxRequests
    /\ LET s == isPathSafe(req)
       IN IF req = <<>> \/ ~s.safe THEN Refuse({req}, 400)
          ELSE IF s.path \notin dirs \cup files THEN Refuse({req}, 404)
          ELSE IF s.path \in dirs THEN Refuse({req}, 400)
          ELSE Serve({req}, 200, dirs, files, {s.path}, FALSE)

\* EditHandler.HandleSaveFile
HandleSaveFile(req) ==
    /\ reqCount < MaxRequests
    /\ LET s == isPathSafe(req)
           cleanPath == s.path
           made == MkdirAllNew(dirs, Dir(cleanPath))
       IN IF req = <<>> \/ ~s.safe THEN Refuse({req}, 400)
          ELSE IF ~MkdirAllOk(files, Dir(cleanPath)) THEN Refuse({req}, 500)
          ELSE IF cleanPath \in dirs \cup made
            THEN Serve({req}, 500, dirs \cup made, files, made \cup {cleanPath},
                       made # {})
          ELSE Serve({req}, 200, dirs \cup made, files \cup {cleanPath},
                     made \cup {cleanPath}, TRUE)

Formats == {"zip", "tar", "gzip", "rar"}

\* CompressHandler.HandleCompress, one source path
HandleCompress(source, output, format) ==
    /\ reqCount < MaxRequests
    /\ LET so == isPathSafe(output)
           ss == isPathSafe(source)
           made == MkdirAllNew(dirs, Dir(so.path))
           d1 == dirs \cup made
           c == CASE format = "zip" -> CreateZip(d1, files, so.path, ss.path)
                  [] format = "tar" -> CreateTar(d1, files, so.path, ss.path)
                  [] OTHER -> CreateGzip(d1, files, so.path, ss.path)
       IN IF source = <<>> \/ output = <<>> THEN Refuse({source, output}, 400)
          ELSE IF ~so.safe \/ ~ss.safe THEN Refuse({source, output}, 400)
          ELSE IF ~MkdirAllOk(files, Dir(so.path)) THEN Refuse({source, output}, 500)
          ELSE IF format \notin {"zip", "tar", "gzip"}
            THEN Serve({source, output}, 400, d1, files, made, made # {})
          ELSE Serve({source, output}, IF c.ok THEN 200 ELSE 500, d1, c.files,
                     made \cup c.touched, made # {} \/ c.files # files \/ c.ok)

\* CompressHandler.HandleExtract: an empty dest is the archive path without
\* its extension
HandleExtract(archive, dest, entry) ==
    /\ reqCount < MaxRequests
    /\ LET sa == isPathSafe(archive)
           destPath == IF dest = <<>>
                         THEN Dir(archive) \o <<Stem(archive[Len(archive)])>>
                         ELSE dest
           sd == isPathSafe(destPath)
           made == MkdirAllNew(dirs, sd.path)
           d1 == dirs \cup made
           ext == Ext(sa.path[Len(sa.path)])
           x == IF ext = ".zip" THEN ExtractZip(d1, files, sa.path, sd.path, entry)
                ELSE ExtractTar(d1, files, sa.path, sd.path, entry)
       IN IF archive = <<>> THEN Refuse({archive, dest}, 400)
          ELSE IF ~sa.safe \/ ~sd.safe THEN Refuse({archive, dest}, 400)
          ELSE IF ~MkdirAllOk(files, sd.path) THEN Refuse({archive, dest}, 500)
          ELSE IF ext \notin {".zip", ".tar", ".gz", ".tgz"}
            THEN /\ entry = NoEntry
                 /\ Serve({archive, dest}, 400, d1, files, made, made # {})
          ELSE ServeExtracting({archive, dest}, IF x.ok THEN 200 ELSE 500,
                               x.dirs, x.files, made \cup x.touched,
                               made # {} \/ x.files # files \/ x.dirs # d1,
                               Extraction(sd.path, entry, x.ok))

NextServer ==
    \/ \E req \in ReqPaths : MethodNotAllowed(req)
    \/ \E req \in ReqPaths, recursive \in BOOLEAN : HandleList(req, recursive)
    \/ \E req \in ReqPaths : HandleDelete(req)
    \/ \E req \in ReqPaths : HandleMkdir(req)
    \/ \E old \in ReqPaths, new \in SecondPaths : HandleRename(old, new)
    \/ \E req \in ReqPaths : HandleStat(req)
    \/ \E req \in ReqPaths, modeOk \in BOOLEAN : HandleChmod(req, modeOk)
    \/ \E req \in ReqPaths : handleChecksum(req)
    \/ \E req \in ReqPaths, autoExtract \in BOOLEAN, entry \in EntryNames :
           HandleUpload(req, autoExtract, entry)
    \/ \E req \in ReqPaths : HandleGetFile(req)
    \/ \E req \in ReqPaths : HandleSaveFile(req)
    \/ \E source \in ReqPaths, output \in SecondPaths, format \in Formats :
           HandleCompress(source, output, format)
    \/ \E archive \in ReqPaths, dest \in SecondPaths, entry \in EntryNames :
           HandleExtract(archive, dest, entry)

(***************************************************************************)
(* One task, from run*Task taking it up to the OnTaskCompleted callback,   *)
(* with the goroutines of its transfer: the chunk workers, the progress    *)
(* reporter with its 500 ms ticker, and the caller that collects the       *)
(* results.  fileSize is the size of the file transferred.                 *)
(*                                                                         *)
(* Task.Progress is kept as the number of bytes out of fileSize it stands  *)
(* for: written/total is written, and 1.0 is fileSize.                     *)
(***************************************************************************)
MaxProgressMultiple == 2   \* SpecProgress: sizes up to 4 MiB * MaxProgressMultiple + 1

ProgressSizes == {1} \cup SizesUpTo(MaxProgressMultiple)

NewTaskFields == [Status |-> "Pending", Progress |-> 0, BytesDone |-> 0,
                  Error |-> FALSE, Canceled |-> FALSE]

IdleProgressCalls ==
    /\ ptask = NewTaskFields
    /\ mpc = "idle"
    /\ callErr = FALSE
    /\ cwpc = [i \in Chunks |-> "none"]
    /\ results = <<>>
    /\ bytesDone = 0
    /\ lastProgress = 0
    /\ progressDone = FALSE
    /\ clpc = "none"
    /\ resultsCloses = 0
    /\ doneCloses = 0
    /\ tkpc = "none"
    /\ tkDone = 0
    /\ prWritten = 0
    /\ notified = 0
    /\ atNotify = NewTaskFields

\* AddUploadTask / AddDownloadTask has registered the task and started its
\* goroutine
InitProgress ==
    /\ ptype \in {"upload", "download"}
    /\ IdleProgressCalls

\* no task is ever added
IdleProgress ==
    /\ ptype = "upload"
    /\ IdleProgressCalls

\* the onProgress closure of runUploadTask sets Progress and BytesDone (total
\* is > 0 here); the one of runDownloadTask sets Progress (and Speed)
OnProgress(t, written) ==
    IF ptype = "upload"
      THEN [t EXCEPT !.Progress = written, !.BytesDone = written]
      ELSE [t EXCEPT !.Progress = written]

\* results := make(chan chunkResult, numChunks)
resultsCapUnbuffered(size) == 0
resultsCap(size) == numChunks(size)

\* run*Task: the semaphore slot, task.Status = StatusRunning, and the call of
\* UploadFile / DownloadFile: below 4 MiB the single-stream transfer,
\* otherwise the parallel one, which starts its progress reporter and one
\* worker per chunk
RunTask ==
    /\ mpc = "idle"
    /\ ptask' = [ptask EXCEPT !.Status = "Running"]
    /\ IF fileSize < defaultChunkSize
         THEN /\ mpc' = "single"
              /\ UNCHANGED <<cwpc, tkpc, clpc>>
         ELSE /\ mpc' = "collect"
              /\ clpc' = "wait"
              /\ cwpc' = [i \in Chunks |->
                             IF i < numChunks(fileSize) THEN "run" ELSE "none"]
              /\ tkpc' = "select"
    /\ UNCHANGED <<ptype, callErr, results, bytesDone, lastProgress,
                   progressDone, tkDone, prWritten, notified, atNotify>>
    /\ UNCHANGED <<resultsCloses, doneCloses>>
    /\ UNCHANGED outsideProgress

\* progressReader.Read (upload) or one turn of the copy loop of
\* downloadFileSingle: n more bytes (all that is left, or half of it), then
\* onProgress
SingleRead(half) ==
    /\ mpc = "single"
    /\ prWritten < fileSize
    /\ LET left == fileSize - prWritten
           n == IF half THEN (left + 1) \div 2 ELSE left
       IN /\ prWritten' = prWritten + n
          /\ ptask' = OnProgress(ptask, prWritten + n)
    /\ UNCHANGED <<ptype, mpc, callErr, cwpc, results, bytesDone, lastProgress,
                   progressDone, tkpc, tkDone, notified, atNotify>>
    /\ UNCHANGED chanVars
    /\ UNCHANGED outsideProgress

\* the single-stream transfer returns: an error at any point, or its verdict
\* after the last byte
SingleReturns(err) ==
    /\ mpc = "single"
    /\ err \/ prWritten = fileSize
    /\ callErr' = err
    /\ mpc' = "returned"
    /\ UNCHANGED <<ptype, ptask, cwpc, results, bytesDone, lastProgress,
                   progressDone, tkpc, tkDone, prWritten, notified, atNotify>>
    /\ UNCHANGED chanVars
    /\ UNCHANGED outsideProgress

\* the worker of chunk i: err := uploadChunk / downloadChunkToFile (...);
\* if err == nil { bytesDone.Add(end - start) }; results <- chunkResult{...}
\* (the send waits while the channel is full)
ChunkWorker(i, ok) ==
    /\ cwpc[i] = "run"
    /\ Len(results) < resultsCap(fileSize)
    /\ bytesDone' = IF ok THEN bytesDone + (chunkEnd(fileSize, i) - chunkStart(fileSize, i))
                    ELSE bytesDone
    /\ results' = Append(results, ok)
    /\ cwpc' = [cwpc EXCEPT ![i] = "end"]
    /\ UNCHANGED <<ptype, ptask, mpc, callErr, lastProgress, progressDone, tkpc,
                   tkDone, prWritten, notified, atNotify>>
    /\ UNCHANGED chanVars
    /\ UNCHANGED outsideProgress

\* for result := range results { if result.err != nil {
\*     close(progressDone); return fmt.Errorf(...) } }
CollectResult ==
    /\ mpc = "collect"
    /\ results # <<>>
    /\ results' = Tail(results)
    /\ IF Head(results)
         THEN UNCHANGED <<mpc, callErr, progressDone, doneCloses>>
         ELSE /\ progressDone' = TRUE
              /\ doneCloses' = doneCloses + 1
              /\ callErr' = TRUE
              /\ mpc' = "returned"
    /\ UNCHANGED <<ptype, ptask, cwpc, bytesDone, lastProgress, tkpc, tkDone,
                   prWritten, notified, atNotify>>
    /\ UNCHANGED <<clpc, resultsCloses>>
    /\ UNCHANGED outsideProgress

\* go func() { wg.Wait(); close(results) }()
WaitAndClose ==
    /\ clpc = "wait"
    /\ \A i \in Chunks : cwpc[i] \in {"none", "end"}
    /\ resultsCloses' = resultsCloses + 1
    /\ clpc' = "end"
    /\ UNCHANGED <<ptype, ptask, mpc, callErr, cwpc, results, bytesDone,
                   lastProgress, progressDone, tkpc, tkDone, prWritten, notified,
                   atNotify, doneCloses>>
    /\ UNCHANGED outsideProgress

\* the range loop ends when the channel is closed and empty;
\* close(progressDone)
ResultsClosed ==
    /\ mpc = "collect"
    /\ results = <<>>
    /\ resultsCloses > 0
    /\ progressDone' = TRUE
    /\ doneCloses' = doneCloses + 1
    /\ mpc' = "final"
    /\ UNCHANGED <<ptype, ptask, callErr, cwpc, results, bytesDone, lastProgress,
                   tkpc, tkDone, prWritten, notified, atNotify>>
    /\ UNCHANGED <<clpc, resultsCloses>>
    /\ UNCHANGED outsideProgress

\* uploadFileParallel: onProgress(fileSize, fileSize); return nil
\* downloadFileParallel: mergeChunks, then return verifyChecksum(...)
FinalStep(err) ==
    /\ mpc = "final"
    /\ IF ptype = "upload"
         THEN /\ ~err
              /\ ptask' = OnProgress(ptask, fileSize)
         ELSE UNCHANGED ptask
    /\ callErr' = err
    /\ mpc' = "returned"
    /\ UNCHANGED <<ptype, cwpc, results, bytesDone, lastProgress, progressDone,
                   tkpc, tkDone, prWritten, notified, atNotify>>
    /\ UNCHANGED chanVars
    /\ UNCHANGED outsideProgress

\* the reporter: select { case <-ticker.C: done := bytesDone.Load()
\* (a tick can be taken also when progressDone is closed: select takes
\* either ready case)
TickerLoad ==
    /\ tkpc = "select"
    /\ tkDone' = bytesDone
    /\ tkpc' = "loaded"
    /\ UNCHANGED <<ptype, ptask, mpc, callErr, cwpc, results, bytesDone,
                   lastProgress, progressDone, prWritten, notified, atNotify>>
    /\ UNCHANGED chanVars
    /\ UNCHANGED outsideProgress

\* upload:   if done != lastProgress { onProgress(done, fileSize);
\*                                     lastProgress = done }
\* download: onProgress(percent, speed)
TickerReport ==
    /\ tkpc = "loaded"
    /\ IF ptype = "upload" /\ tkDone = lastProgress
         THEN UNCHANGED <<ptask, lastProgress>>
         ELSE /\ ptask' = OnProgress(ptask, tkDone)
              /\ lastProgress' = IF ptype = "upload" THEN tkDone ELSE lastProgress
    /\ tkpc' = "select"
    /\ UNCHANGED <<ptype, mpc, callErr, cwpc, results, bytesDone, progressDone,
                   tkDone, prWritten, notified, atNotify>>
    /\ UNCHANGED chanVars
    /\ UNCHANGED outsideProgress

\*          case <-progressDone: return }
TickerExit ==
    /\ tkpc = "select"
    /\ progressDone
    /\ tkpc' = "end"
    /\ UNCHANGED <<ptype, ptask, mpc, callErr, cwpc, results, bytesDone,
                   lastProgress, progressDone, tkDone, prWritten, notified,
                   atNotify>>
    /\ UNCHANGED chanVars
    /\ UNCHANGED outsideProgress

\* run*Task after the call: Canceled, Failed with Error, or Completed with
\* Progress = 1.0
TaskEnds ==
    /\ mpc = "returned"
    /\ ptask' = IF ptask.Canceled THEN [ptask EXCEPT !.Status = "Canceled"]
                ELSE IF callErr
                THEN [ptask EXCEPT !.Status = "Failed", !.Error = TRUE]
                ELSE [ptask EXCEPT !.Status = "Completed", !.Progress = fileSize]
    /\ mpc' = "notify"
    /\ UNCHANGED <<ptype, callErr, cwpc, results, bytesDone, lastProgress,
                   progressDone, tkpc, tkDone, prWritten, notified, atNotify>>
    /\ UNCHANGED chanVars
    /\ UNCHANGED outsideProgress

\* if OnTaskCompleted != nil { OnTaskCompleted(task) }, a callback being
\* registered; then the semaphore slot is given back
TaskNotifies ==
    /\ mpc = "notify"
    /\ notified' = notified + 1
    /\ atNotify' = ptask
    /\ mpc' = "done"
    /\ UNCHANGED <<ptype, ptask, callErr, cwpc, results, bytesDone, lastProgress,
                   progressDone, tkpc, tkDone, prWritten>>
    /\ UNCHANGED chanVars
    /\ UNCHANGED outsideProgress

\* CancelTask of this task: task.Canceled.Store(true)
CancelThisTask ==
    /\ ~ptask.Canceled
    /\ ptask' = [ptask EXCEPT !.Canceled = TRUE]
    /\ UNCHANGED <<ptype, mpc, callErr, cwpc, results, bytesDone, lastProgress,
                   progressDone, tkpc, tkDone, prWritten, notified, atNotify>>
    /\ UNCHANGED chanVars
    /\ UNCHANGED outsideProgress

NextProgress ==
    \/ RunTask
    \/ \E half \in BOOLEAN : SingleRead(half)
    \/ \E err \in BOOLEAN : SingleReturns(err)
    \/ \E i \in Chunks, ok \in BOOLEAN : ChunkWorker(i, ok)
    \/ CollectResult
    \/ WaitAndClose
    \/ ResultsClosed
    \/ \E err \in BOOLEAN : FinalStep(err)
    \/ TickerLoad
    \/ TickerReport
    \/ TickerExit
    \/ TaskEnds
    \/ TaskNotifies
    \/ CancelThisTask

(***************************************************************************)
(* Packed transfers: Client.UploadFilePacked and Client.DownloadFilePacked *)
(* (kcpclient/client.go).  One call is followed from its start to its     *)
(* return.  What the model keeps of the file systems is whether the        *)
(* temporary archives exist: the local one (tempFile of the upload,        *)
(* tempTarGz of the download) and <remotePath>.tar.gz on the server.       *)
(* The plain transfers the call delegates to (UploadFile, DownloadFile)    *)
(* and the requests it sends are steps with either outcome.                *)
(***************************************************************************)
DefaultThresholdBytes == 10485760    \* 10 * 1024 * 1024

\* the thresholds a caller configures
PackThresholds == {1, 4, DefaultThresholdBytes}

\* sizes around a threshold
PackSizes(threshold) == {0, threshold - 1, threshold, threshold + 1}

DefaultPackTransferConfig ==
    [Enabled |-> FALSE, ThresholdBytes |-> DefaultThresholdBytes]

PackKinds == {"upload", "download"}

\* no packed call has been made
IdlePackedCall ==
    /\ kpc = "idle"
    /\ shouldCompress = FALSE
    /\ tempFile = FALSE
    /\ fileOpen = FALSE
    /\ srvArchive = FALSE
    /\ packErr = "none"
    /\ madeLocal = FALSE
    /\ madeRemote = FALSE
    /\ removeTried = FALSE
    /\ deleteTried = FALSE
    /\ removedOpen = FALSE
    /\ transferred = FALSE

InitPacked ==
    /\ pkind \in PackKinds
    /\ config \in [Enabled : BOOLEAN, ThresholdBytes : PackThresholds]
    /\ info \in [IsDir : BOOLEAN, Size : PackSizes(config.ThresholdBytes)]
    /\ IdlePackedCall

IdlePacked ==
    /\ pkind = "upload"
    /\ config = DefaultPackTransferConfig
    /\ info = [IsDir |-> FALSE, Size |-> 0]
    /\ IdlePackedCall

\* a variant that compresses a file only above the threshold
ShouldCompressAbove(i, threshold) == i.IsDir \/ i.Size > threshold
\* the value of shouldCompress for what os.Stat or the server's stat reported
ShouldCompress(i, threshold) == i.IsDir \/ i.Size >= threshold

\* os.Remove(tempFile): ok tells whether the file system removed it
Remove(ok) ==
    /\ removeTried' = TRUE
    /\ removedOpen' = (removedOpen \/ fileOpen)
    /\ tempFile' = (tempFile /\ ~ok)

\* the call returns
Return(err) ==
    /\ kpc' = "done"
    /\ packErr' = (IF err THEN "err" ELSE "nil")

\* UploadFilePacked up to the decision
UploadFilePacked(statOk) ==
    /\ pkind = "upload"
    /\ kpc = "idle"
    /\ IF ~config.Enabled
         THEN /\ kpc' = "plain"
              /\ UNCHANGED <<shouldCompress, packErr>>
         ELSE IF ~statOk
           THEN /\ Return(TRUE)
                /\ UNCHANGED shouldCompress
           ELSE /\ shouldCompress' = ShouldCompress(info, config.ThresholdBytes)
                /\ kpc' = (IF shouldCompress' THEN "compress" ELSE "plain")
                /\ UNCHANGED packErr
    /\ UNCHANGED <<pkind, config, info, tempFile, fileOpen, srvArchive,
                   madeLocal, madeRemote, removeTried, deleteTried,
                   removedOpen, transferred>>
    /\ UNCHANGED outsidePacked

\* common.CompressToTarGz(localPath, tempFile): created tells whether
\* os.Create succeeded, ok whether the walk over the source did
CompressToTarGz(created, ok) ==
    /\ pkind = "upload"
    /\ kpc = "compress"
    /\ ok => created
    /\ tempFile' = (tempFile \/ created)
    /\ madeLocal' = (madeLocal \/ created)
    /\ IF ok
         THEN kpc' = "connected" /\ UNCHANGED packErr
         ELSE Return(TRUE)
    /\ UNCHANGED <<pkind, config, info, shouldCompress, fileOpen, srvArchive,
                   madeRemote, removeTried, deleteTried, removedOpen,
                   transferred>>
    /\ UNCHANGED outsidePacked

\* if !c.IsConnected() { os.Remove(tempFile); return error }
UploadCheckConnected(connected, rmOk) ==
    /\ pkind = "upload"
    /\ kpc = "connected"
    /\ IF connected
         THEN /\ kpc' = "open"
              /\ UNCHANGED <<packErr, removeTried, removedOpen, tempFile>>
         ELSE /\ Remove(rmOk)
              /\ Return(TRUE)
    /\ UNCHANGED <<pkind, config, info, shouldCompress, fileOpen, srvArchive,
                   madeLocal, madeRemote, deleteTried, transferred>>
    /\ UNCHANGED outsidePacked

\* os.Open(tempFile)
UploadOpen(ok, rmOk) ==
    /\ pkind = "upload"
    /\ kpc = "open"
    /\ IF ok
         THEN /\ fileOpen' = TRUE
              /\ kpc' = "put"
              /\ UNCHANGED <<packErr, removeTried, removedOpen, tempFile>>
         ELSE /\ Remove(rmOk)
              /\ Return(TRUE)
              /\ UNCHANGED fileOpen
    /\ UNCHANGED <<pkind, config, info, shouldCompress, srvArchive,
                   madeLocal, madeRemote, deleteTried, transferred>>
    /\ UNCHANGED outsidePacked

\* uploadAndCleanup: the PUT with X-Auto-Extract; ok is "status 200"
UploadPut(ok) ==
    /\ pkind = "upload"
    /\ kpc = "put"
    /\ transferred' = ok
    /\ kpc' = "close"
    /\ UNCHANGED <<pkind, config, info, shouldCompress, tempFile, fileOpen,
                   srvArchive, packErr, madeLocal, madeRemote, removeTried,
                   deleteTried, removedOpen>>
    /\ UNCHANGED outsidePacked

\* the deferred function of uploadAndCleanup: file.Close()
UploadDeferClose ==
    /\ pkind = "upload"
    /\ kpc = "close"
    /\ fileOpen' = FALSE
    /\ kpc' = "remove"
    /\ UNCHANGED <<pkind, config, info, shouldCompress, tempFile, srvArchive,
                   packErr, madeLocal, madeRemote, removeTried, deleteTried,
                   removedOpen, transferred>>
    /\ UNCHANGED outsidePacked

\* the deferred function of uploadAndCleanup: os.Remove(tempFile); then
\* UploadFilePacked returns what uploadAndCleanup returned
UploadDeferRemove(rmOk) ==
    /\ pkind = "upload"
    /\ kpc = "remove"
    /\ Remove(rmOk)
    /\ Return(~transferred)
    /\ UNCHANGED <<pkind, config, info, shouldCompress, fileOpen, srvArchive,
                   madeLocal, madeRemote, deleteTried, transferred>>
    /\ UNCHANGED outsidePacked

\* DownloadFilePacked up to the decision
DownloadFilePacked(connected, statOk) ==
    /\ pkind = "download"
    /\ kpc = "idle"
    /\ IF ~connected
         THEN /\ Return(TRUE)
              /\ UNCHANGED shouldCompress
         ELSE IF ~statOk
           THEN /\ kpc' = "nostat"
                /\ UNCHANGED <<shouldCompress, packErr>>
           ELSE /\ shouldCompress' =
                       (config.Enabled
                          /\ ShouldCompress(info, config.ThresholdBytes))
                /\ kpc' = (IF shouldCompress' THEN "srvcompress" ELSE "plain")
                /\ UNCHANGED packErr
    /\ UNCHANGED <<pkind, config, info, tempFile, fileOpen, srvArchive,
                   madeLocal, madeRemote, removeTried, deleteTried,
                   removedOpen, transferred>>
    /\ UNCHANGED outsidePacked

CompressAnswers == {"transport error", "not ok", "ok"}

\* POST ?action=compress&format=targz: made tells whether the server's
\* CreateTarGz created <remotePath>.tar.gz
RequestCompression(answer, made) ==
    /\ pkind = "download"
    /\ kpc = "srvcompress"
    /\ answer = "ok" => made
    /\ srvArchive' = (srvArchive \/ made)
    /\ madeRemote' = (madeRemote \/ made)
    /\ CASE answer = "transport error" -> Return(TRUE)
         [] answer = "not ok" -> kpc' = "fallback" /\ UNCHANGED packErr
         [] answer = "ok" -> kpc' = "fetch" /\ UNCHANGED packErr
    /\ UNCHANGED <<pkind, config, info, shouldCompress, tempFile, fileOpen,
                   madeLocal, removeTried, deleteTried, removedOpen,
                   transferred>>
    /\ UNCHANGED outsidePacked

\* c.DownloadFile(remotePath+".tar.gz", tempTarGz): created tells whether it
\* got as far as creating the local file
DownloadArchive(created, ok) ==
    /\ pkind = "download"
    /\ kpc = "fetch"
    /\ ok => created
    /\ tempFile' = (tempFile \/ created)
    /\ madeLocal' = (madeLocal \/ created)
    /\ IF ok
         THEN kpc' = "extract" /\ UNCHANGED packErr
         ELSE Return(TRUE)
    /\ UNCHANGED <<pkind, config, info, shouldCompress, fileOpen, srvArchive,
                   madeRemote, removeTried, deleteTried, removedOpen,
                   transferred>>
    /\ UNCHANGED outsidePacked

\* common.DecompressFromTarGz(tempTarGz, extractDest); it opens the archive
\* and closes it before it returns
DownloadDecompress(ok) ==
    /\ pkind = "download"
    /\ kpc = "extract"
    /\ IF ok
         THEN kpc' = "remove" /\ UNCHANGED packErr
         ELSE Return(TRUE)
    /\ UNCHANGED <<pkind, config, info, shouldCompress, tempFile, fileOpen,
                   srvArchive, madeLocal, madeRemote, removeTried,
                   deleteTried, removedOpen, transferred>>
    /\ UNCHANGED outsidePacked

\* os.Remove(tempTarGz); its error is logged
RemoveTempTarGz(rmOk) ==
    /\ pkind = "download"
    /\ kpc = "remove"
    /\ Remove(rmOk)
    /\ kpc' = "delete"
    /\ UNCHANGED <<pkind, config, info, shouldCompress, fileOpen, srvArchive,
                   packErr, madeLocal, madeRemote, deleteTried, transferred>>
    /\ UNCHANGED outsidePacked

\* DELETE ?action=delete&path=<remotePath>.tar.gz; its outcome is ignored
DeleteServerArchive(ok) ==
    /\ pkind = "download"
    /\ kpc = "delete"
    /\ deleteTried' = TRUE
    /\ srvArchive' = (srvArchive /\ ~ok)
    /\ transferred' = TRUE
    /\ Return(FALSE)
    /\ UNCHANGED <<pkind, config, info, shouldCompress, tempFile, fileOpen,
                   madeLocal, madeRemote, removeTried, removedOpen>>
    /\ UNCHANGED outsidePacked

\* positions from which the call ends in a plain UploadFile or DownloadFile
PlainPositions == {"plain", "nostat", "fallback"}

\* return c.UploadFile(...) / return c.DownloadFile(...)
PlainTransfer(ok) ==
    /\ kpc \in PlainPositions
    /\ Return(~ok)
    /\ UNCHANGED <<pkind, config, info, shouldCompress, tempFile, fileOpen,
                   srvArchive, madeLocal, madeRemote, removeTried,
                   deleteTried, removedOpen, transferred>>
    /\ UNCHANGED outsidePacked

NextPacked ==
    \/ \E statOk \in BOOLEAN : UploadFilePacked(statOk)
    \/ \E created, ok \in BOOLEAN : CompressToTarGz(created, ok)
    \/ \E connected, rmOk \in BOOLEAN : UploadCheckConnected(connected, rmOk)
    \/ \E ok, rmOk \in BOOLEAN : UploadOpen(ok, rmOk)
    \/ \E ok \in BOOLEAN : UploadPut(ok)
    \/ UploadDeferClose
    \/ \E rmOk \in BOOLEAN : UploadDeferRemove(rmOk)
    \/ \E connected, statOk \in BOOLEAN : DownloadFilePacked(connected, statOk)
    \/ \E answer \in CompressAnswers, made \in BOOLEAN :
           RequestCompression(answer, made)
    \/ \E created, ok \in BOOLEAN : DownloadArchive(created, ok)
    \/ \E ok \in BOOLEAN : DownloadDecompress(ok)
    \/ \E rmOk \in BOOLEAN : RemoveTempTarGz(rmOk)
    \/ \E ok \in BOOLEAN : DeleteServerArchive(ok)
    \/ \E ok \in BOOLEAN : PlainTransfer(ok)

(***************************************************************************)
(* Uploads with X-Auto-Extract: UploadHandler.HandleUpload from os.OpenFile *)
(* to its return, for requests that name one archive path, each in its own *)
(* goroutine of the HTTP server, and the goroutine each of them starts to  *)
(* remove the archive.                                                     *)
(***************************************************************************)
MaxHandlers == 2       \* HandleUpload instances
MaxRemoveTries == 5    \* for i := 0; i < 5; i++

Handlers == 1..MaxHandlers

\* no request has arrived
IdleAuto ==
    /\ xpc = [h \in Handlers |-> "idle"]
    /\ xAuto = [h \in Handlers |-> FALSE]
    /\ xOpen = [h \in Handlers |-> FALSE]
    /\ xStatus = [h \in Handlers |-> 0]
    /\ xCopied = [h \in Handlers |-> "none"]
    /\ xSynced = [h \in Handlers |-> "none"]
    /\ xUploaded = [h \in Handlers |-> FALSE]
    /\ xExtracted = [h \in Handlers |-> FALSE]
    /\ arcFile = FALSE
    /\ rmpc = [h \in Handlers |-> "none"]
    /\ rmTries = [h \in Handlers |-> 0]
    /\ rmSlept = [h \in Handlers |-> <<>>]

InitAuto == IdleAuto

\* http.Error(w, ..., 500); return, with the deferred file.Close()
AutoFail(h) ==
    /\ xStatus' = [xStatus EXCEPT ![h] = 500]
    /\ xOpen' = [xOpen EXCEPT ![h] = FALSE]
    /\ xpc' = [xpc EXCEPT ![h] = "done"]

\* autoExtract := header X-Auto-Extract = "1" (here: and the path ends in
\* .tar.gz); os.OpenFile with O_CREATE
AutoUploadOpen(h, auto, ok) ==
    /\ xpc[h] = "idle"
    /\ xAuto' = [xAuto EXCEPT ![h] = auto]
    /\ IF ok
         THEN /\ xOpen' = [xOpen EXCEPT ![h] = TRUE]
              /\ arcFile' = TRUE
              /\ xpc' = [xpc EXCEPT ![h] = "copy"]
              /\ UNCHANGED xStatus
         ELSE /\ AutoFail(h)
              /\ UNCHANGED arcFile
    /\ UNCHANGED <<xUploaded, xExtracted, rmpc, rmTries>>
    /\ UNCHANGED xIoVars
    /\ UNCHANGED rmSlept
    /\ UNCHANGED outsideAuto

\* file.Seek(startOffset); written, err := io.Copy(file, r.Body)
AutoUploadCopy(h, ok) ==
    /\ xpc[h] = "copy"
    /\ xCopied' = [xCopied EXCEPT ![h] = IF ok THEN "ok" ELSE "err"]
    /\ IF ok
         THEN /\ xpc' = [xpc EXCEPT ![h] = "sync"]
              /\ UNCHANGED <<xStatus, xOpen>>
         ELSE AutoFail(h)
    /\ UNCHANGED <<xAuto, xSynced, xUploaded, xExtracted, arcFile, rmpc, rmTries>>
    /\ UNCHANGED rmSlept
    /\ UNCHANGED outsideAuto

\* if err := file.Sync(); err != nil { http.Error(500); return }
AutoUploadSyncIgnored(h, ok) ==
    /\ xpc[h] = "sync"
    /\ xSynced' = [xSynced EXCEPT ![h] = IF ok THEN "ok" ELSE "err"]
    /\ xpc' = [xpc EXCEPT ![h] = "stat"]
    /\ UNCHANGED <<xStatus, xOpen>>
    /\ UNCHANGED <<xAuto, xCopied, xUploaded, xExtracted, arcFile, rmpc, rmTries>>
    /\ UNCHANGED rmSlept
    /\ UNCHANGED outsideAuto

AutoUploadSync(h, ok) ==
    /\ xpc[h] = "sync"
    /\ xSynced' = [xSynced EXCEPT ![h] = IF ok THEN "ok" ELSE "err"]
    /\ IF ok
         THEN /\ xpc' = [xpc EXCEPT ![h] = "stat"]
              /\ UNCHANGED <<xStatus, xOpen>>
         ELSE AutoFail(h)
    /\ UNCHANGED <<xAuto, xCopied, xUploaded, xExtracted, arcFile, rmpc, rmTries>>
    /\ UNCHANGED rmSlept
    /\ UNCHANGED outsideAuto

\* info, err := file.Stat(); then the test of autoExtract
AutoUploadStat(h, ok) ==
    /\ xpc[h] = "stat"
    /\ IF ok
         THEN /\ xUploaded' = [xUploaded EXCEPT ![h] = TRUE]
              /\ xpc' = [xpc EXCEPT ![h] = IF xAuto[h] THEN "close" ELSE "respond"]
              /\ UNCHANGED <<xStatus, xOpen>>
         ELSE /\ AutoFail(h)
              /\ UNCHANGED xUploaded
    /\ UNCHANGED <<xAuto, xExtracted, arcFile, rmpc, rmTries>>
    /\ UNCHANGED xIoVars
    /\ UNCHANGED rmSlept
    /\ UNCHANGED outsideAuto

\* file.Close() before extracting
AutoUploadClose(h) ==
    /\ xpc[h] = "close"
    /\ xOpen' = [xOpen EXCEPT ![h] = FALSE]
    /\ xpc' = [xpc EXCEPT ![h] = "extract"]
    /\ UNCHANGED <<xAuto, xStatus, xUploaded, xExtracted, arcFile, rmpc, rmTries>>
    /\ UNCHANGED xIoVars
    /\ UNCHANGED rmSlept
    /\ UNCHANGED outsideAuto

\* common.DecompressFromTarGz(cleanPath, filepath.Dir(cleanPath)), called by
\* the handler itself; it fails when the archive is gone and may fail otherwise
AutoUploadExtract(h, ok) ==
    /\ xpc[h] = "extract"
    /\ ok => arcFile
    /\ IF ok
         THEN /\ xExtracted' = [xExtracted EXCEPT ![h] = TRUE]
              /\ xpc' = [xpc EXCEPT ![h] = "spawn"]
              /\ UNCHANGED <<xStatus, xOpen>>
         ELSE /\ AutoFail(h)
              /\ UNCHANGED xExtracted
    /\ UNCHANGED <<xAuto, xUploaded, arcFile, rmpc, rmTries>>
    /\ UNCHANGED xIoVars
    /\ UNCHANGED rmSlept
    /\ UNCHANGED outsideAuto

\* go func(archivePath string) {...}(cleanPath)
AutoUploadSpawn(h) ==
    /\ xpc[h] = "spawn"
    /\ rmpc' = [rmpc EXCEPT ![h] = "try"]
    /\ xpc' = [xpc EXCEPT ![h] = "respond"]
    /\ UNCHANGED <<xAuto, xOpen, xStatus, xUploaded, xExtracted, arcFile, rmTries>>
    /\ UNCHANGED xIoVars
    /\ UNCHANGED rmSlept
    /\ UNCHANGED outsideAuto

\* w.WriteHeader(http.StatusOK)
AutoUploadRespond(h) ==
    /\ xpc[h] = "respond"
    /\ xStatus' = [xStatus EXCEPT ![h] = 200]
    /\ xpc' = [xpc EXCEPT ![h] = "return"]
    /\ UNCHANGED <<xAuto, xOpen, xUploaded, xExtracted, arcFile, rmpc, rmTries>>
    /\ UNCHANGED xIoVars
    /\ UNCHANGED rmSlept
    /\ UNCHANGED outsideAuto

\* HandleUpload returns: the deferred file.Close()
AutoUploadReturn(h) ==
    /\ xpc[h] = "return"
    /\ xOpen' = [xOpen EXCEPT ![h] = FALSE]
    /\ xpc' = [xpc EXCEPT ![h] = "done"]
    /\ UNCHANGED <<xAuto, xStatus, xUploaded, xExtracted, arcFile, rmpc, rmTries>>
    /\ UNCHANGED xIoVars
    /\ UNCHANGED rmSlept
    /\ UNCHANGED outsideAuto

\* sleepDuration := (1 << i) * 100
sleepDuration(i) == (2 ^ i) * 100

\* os.Remove(archivePath): removed, or already gone (both end the goroutine),
\* or another error, after which it sleeps; rmTries[h] is i
RemoveArchiveTry(h, ok) ==
    /\ rmpc[h] = "try"
    /\ IF ~arcFile \/ ok
         THEN /\ arcFile' = FALSE
              /\ rmpc' = [rmpc EXCEPT ![h] = "end"]
              /\ UNCHANGED rmSlept
         ELSE /\ rmpc' = [rmpc EXCEPT ![h] = "sleep"]
              /\ rmSlept' = [rmSlept EXCEPT
                     ![h] = Append(@, sleepDuration(rmTries[h]))]
              /\ UNCHANGED arcFile
    /\ rmTries' = [rmTries EXCEPT ![h] = @ + 1]
    /\ UNCHANGED <<xpc, xAuto, xOpen, xStatus, xUploaded, xExtracted>>
    /\ UNCHANGED xIoVars
    /\ UNCHANGED outsideAuto

\* <-time.After(...); i++; the loop ends after the fifth failure
RemoveArchiveWakeSix(h) ==
    /\ rmpc[h] = "sleep"
    /\ rmpc' = [rmpc EXCEPT
           ![h] = IF rmTries[h] <= MaxRemoveTries THEN "try" ELSE "end"]
    /\ UNCHANGED <<xpc, xAuto, xOpen, xStatus, xUploaded, xExtracted, arcFile,
                   rmTries>>
    /\ UNCHANGED xIoVars
    /\ UNCHANGED rmSlept
    /\ UNCHANGED outsideAuto
RemoveArchiveWake(h) ==
    /\ rmpc[h] = "sleep"
    /\ rmpc' = [rmpc EXCEPT
           ![h] = IF rmTries[h] < MaxRemoveTries THEN "try" ELSE "end"]
    /\ UNCHANGED <<xpc, xAuto, xOpen, xStatus, xUploaded, xExtracted, arcFile,
                   rmTries>>
    /\ UNCHANGED xIoVars
    /\ UNCHANGED rmSlept
    /\ UNCHANGED outsideAuto

NextAuto ==
    \/ \E h \in Handlers, auto, ok \in BOOLEAN : AutoUploadOpen(h, auto, ok)
    \/ \E h \in Handlers, ok \in BOOLEAN : AutoUploadCopy(h, ok)
    \/ \E h \in Handlers, ok \in BOOLEAN : AutoUploadSync(h, ok)
    \/ \E h \in Handlers, ok \in BOOLEAN : AutoUploadStat(h, ok)
    \/ \E h \in Handlers : AutoUploadClose(h)
    \/ \E h \in Handlers, ok \in BOOLEAN : AutoUploadExtract(h, ok)
    \/ \E h \in Handlers : AutoUploadSpawn(h)
    \/ \E h \in Handlers : AutoUploadRespond(h)
    \/ \E h \in Handlers : AutoUploadReturn(h)
    \/ \E h \in Handlers, ok \in BOOLEAN : RemoveArchiveTry(h, ok)
    \/ \E h \in Handlers : RemoveArchiveWake(h)

(***************************************************************************)
(* The task queue of the GUI: TaskQueue.updateLoop, which every 500 ms     *)
(* hands each task of the manager to updateTaskWidget and then removes the *)
(* widgets of finished tasks, and TaskWidget.update, which the loop queues *)
(* for the main thread with fyne.Do.  Time is counted in ticker periods.   *)
(***************************************************************************)
MaxQueueTasks == 1      \* tasks the queue shows
TickerPeriodMs == 500   \* time.NewTicker(500 * time.Millisecond)
GraceMs == 3000         \* time.Since(tw.lastUpdate) > 3*time.Second

QueueTasks == 1..MaxQueueTasks

\* the grace period in ticker periods
Grace == GraceMs \div TickerPeriodMs

\* ages are counted up to the first value beyond the grace period
Aged == Grace + 1

\* the manager is empty and the loop waits for its first tick
IdleQueue ==
    /\ qStatus = [t \in QueueTasks |-> "none"]
    /\ inManager = [t \in QueueTasks |-> FALSE]
    /\ taskWidgets = [t \in QueueTasks |-> FALSE]
    /\ sinceUpdate = [t \in QueueTasks |-> Aged]
    /\ sinceTerminal = [t \in QueueTasks |-> 0]
    /\ uiQueued = [t \in QueueTasks |-> FALSE]
    /\ tickDue = FALSE
    /\ lpc = "wait"
    /\ autoRemoved = {}

InitQueue == IdleQueue

\* Manager.Add*Task: the task enters the registry Pending
QueueAddTask(t) ==
    /\ qStatus[t] = "none"
    /\ qStatus' = [qStatus EXCEPT ![t] = "Pending"]
    /\ inManager' = [inManager EXCEPT ![t] = TRUE]
    /\ UNCHANGED <<taskWidgets, sinceUpdate, sinceTerminal, uiQueued, tickDue,
                   lpc, autoRemoved>>
    /\ UNCHANGED outsideQueue

\* the task's goroutine: task.Status = StatusRunning
QueueTaskRuns(t) ==
    /\ qStatus[t] = "Pending"
    /\ qStatus' = [qStatus EXCEPT ![t] = "Running"]
    /\ UNCHANGED <<inManager, taskWidgets, sinceUpdate, sinceTerminal, uiQueued,
                   tickDue, lpc, autoRemoved>>
    /\ UNCHANGED outsideQueue

\* the task's goroutine: task.Status = a terminal status
QueueTaskEnds(t, st) ==
    /\ qStatus[t] = "Running"
    /\ st \in Terminal
    /\ qStatus' = [qStatus EXCEPT ![t] = st]
    /\ sinceTerminal' = [sinceTerminal EXCEPT ![t] = 0]
    /\ UNCHANGED <<inManager, taskWidgets, sinceUpdate, uiQueued, tickDue, lpc,
                   autoRemoved>>
    /\ UNCHANGED outsideQueue

\* one ticker period passes: every age grows and ticker.C holds a tick
TickerFires ==
    /\ sinceUpdate' = [t \in QueueTasks |-> Min(sinceUpdate[t] + 1, Aged)]
    /\ sinceTerminal' = [t \in QueueTasks |->
           IF qStatus[t] \in Terminal THEN Min(sinceTerminal[t] + 1, Aged)
                                      ELSE sinceTerminal[t]]
    /\ tickDue' = TRUE
    /\ UNCHANGED <<qStatus, inManager, taskWidgets, uiQueued, lpc, autoRemoved>>
    /\ UNCHANGED outsideQueue

\* for range ticker.C; GetAllTasks; updateTaskWidget for each task: a missing
\* widget is created by createTaskWidget, which leaves lastUpdate at the zero
\* time, an existing one gets fyne.Do(tw.update)
updateLoop ==
    /\ lpc = "wait"
    /\ tickDue
    /\ tickDue' = FALSE
    /\ taskWidgets' = [t \in QueueTasks |-> taskWidgets[t] \/ inManager[t]]
    /\ sinceUpdate' = [t \in QueueTasks |->
           IF inManager[t] /\ ~taskWidgets[t] THEN Aged ELSE sinceUpdate[t]]
    /\ uiQueued' = [t \in QueueTasks |->
           uiQueued[t] \/ (inManager[t] /\ taskWidgets[t])]
    /\ lpc' = "remove"
    /\ UNCHANGED <<qStatus, inManager, sinceTerminal, autoRemoved>>
    /\ UNCHANGED outsideQueue

\* widgets the loop marks: Completed or Canceled and lastUpdate older than 3 s
toRemove ==
    {t \in QueueTasks : /\ taskWidgets[t]
                        /\ qStatus[t] \in {"Completed", "Canceled"}
                        /\ sinceUpdate[t] > Grace}

\* the second half of the iteration: delete(tq.taskWidgets, id) and
\* taskManager.RemoveTask(id) for each marked id
updateLoopRemove ==
    /\ lpc = "remove"
    /\ taskWidgets' = [t \in QueueTasks |-> taskWidgets[t] /\ t \notin toRemove]
    /\ inManager' = [t \in QueueTasks |-> inManager[t] /\ t \notin toRemove]
    /\ autoRemoved' = autoRemoved \cup toRemove
    /\ lpc' = "wait"
    /\ UNCHANGED <<qStatus, sinceUpdate, sinceTerminal, uiQueued, tickDue>>
    /\ UNCHANGED outsideQueue

\* the main thread runs a queued TaskWidget.update: tw.lastUpdate = time.Now()
TaskWidgetUpdate(t) ==
    /\ uiQueued[t]
    /\ uiQueued' = [uiQueued EXCEPT ![t] = FALSE]
    /\ sinceUpdate' = [sinceUpdate EXCEPT ![t] = 0]
    /\ UNCHANGED <<qStatus, inManager, taskWidgets, sinceTerminal, tickDue, lpc,
                   autoRemoved>>
    /\ UNCHANGED outsideQueue

NextQueue ==
    \/ \E t \in QueueTasks : QueueAddTask(t)
    \/ \E t \in QueueTasks : QueueTaskRuns(t)
    \/ \E t \in QueueTasks, st \in Terminal : QueueTaskEnds(t, st)
    \/ TickerFires
    \/ updateLoop
    \/ updateLoopRemove
    \/ \E t \in QueueTasks : TaskWidgetUpdate(t)

(***************************************************************************)
(* One upload of a local file made twice from the same state of a server   *)
(* directory: with UploadFilePacked's config.Enabled false, and with it     *)
(* true and the file at or above the threshold.  The directory is the one   *)
(* the remote path lies in; a file is its content, an archive also the name *)
(* of the entry it holds.  All calls succeed.                               *)
(***************************************************************************)
LocalNames == {"a", "b"}

TreeData == 1 .. 2

\* the names a file of the server directory can have
SrvNames == {"a", "b", "a.tar.gz", "b.tar.gz"}

\* remotePath + ".tar.gz"
remotePathPacked(remotePath) ==
    CASE remotePath = "a" -> "a.tar.gz"
      [] remotePath = "b" -> "b.tar.gz"

\* no file of this name
NoFile == [entry |-> "", data |-> 0]

\* a file that is no archive
PlainFile(d) == [entry |-> "", data |-> d]

\* a file that was in the directory before the upload
OldFile == PlainFile(9)

IdleTree ==
    /\ tLocal = [name |-> "a", data |-> 1]
    /\ tRemote = "a"
    /\ srvPlain = [n \in SrvNames |-> NoFile]
    /\ srvPacked = srvPlain
    /\ plpc = "start"
    /\ pkpc = "start"
    /\ packTemp = NoFile

InitTree ==
    /\ tLocal \in [name : LocalNames, data : TreeData]
    /\ tRemote \in LocalNames
    /\ srvPlain \in [SrvNames -> {NoFile, OldFile}]
    /\ srvPacked = srvPlain
    /\ plpc = "start"
    /\ pkpc = "start"
    /\ packTemp = NoFile

\* UploadFilePacked, config.Enabled false: UploadFile, and HandleUpload
\* creates or truncates the file at the remote path and copies the body
TreeUploadPlain ==
    /\ plpc = "start"
    /\ srvPlain' = [srvPlain EXCEPT ![tRemote] = PlainFile(tLocal.data)]
    /\ plpc' = "done"
    /\ UNCHANGED <<tLocal, tRemote, srvPacked, pkpc, packTemp>>
    /\ UNCHANGED outsideTree

\* common.CompressToTarGz(localPath, tempFile): the entry's name is the path
\* of the file relative to the directory of localPath
TreeCompress ==
    /\ pkpc = "start"
    /\ packTemp' = [entry |-> tLocal.name, data |-> tLocal.data]
    /\ pkpc' = "compressed"
    /\ UNCHANGED <<tLocal, tRemote, srvPlain, srvPacked, plpc>>
    /\ UNCHANGED outsideTree

\* the PUT of the archive with X-Auto-Extract, and HandleUpload serving it:
\* the archive is written at remotePath + ".tar.gz" and extracted into the
\* directory it lies in; the deferred os.Remove(tempFile) of the client
TreeUploadPacked ==
    /\ pkpc = "compressed"
    /\ srvPacked' = [srvPacked EXCEPT ![remotePathPacked(tRemote)] = packTemp,
                                      ![packTemp.entry] = PlainFile(packTemp.data)]
    /\ packTemp' = NoFile
    /\ pkpc' = "extracted"
    /\ UNCHANGED <<tLocal, tRemote, srvPlain, plpc>>
    /\ UNCHANGED outsideTree

\* the goroutine of HandleUpload: os.Remove(archivePath)
TreeRemoveArchive ==
    /\ pkpc = "extracted"
    /\ srvPacked' = [srvPacked EXCEPT ![remotePathPacked(tRemote)] = NoFile]
    /\ pkpc' = "done"
    /\ UNCHANGED <<tLocal, tRemote, srvPlain, plpc, packTemp>>
    /\ UNCHANGED outsideTree

NextTree ==
    \/ TreeUploadPlain
    \/ TreeCompress
    \/ TreeUploadPacked
    \/ TreeRemoveArchive

(***************************************************************************)
(* Specifications.                                                         *)
(***************************************************************************)
\* a Manager no task is ever given
IdleManager == InitManager /\ maxParallel = DefaultMaxParallel

Init == InitManager /\ IdleConnect /\ IdleTransfer /\ IdleServer /\ IdleProgress
    /\ IdlePacked /\ IdleAuto /\ IdleQueue /\ IdleTree

Next == NextManager

Spec == Init /\ [][Next]_vars

InitConnectOnly == IdleManager /\ InitConnect /\ IdleTransfer /\ IdleServer /\ IdleProgress
    /\ IdlePacked /\ IdleAuto /\ IdleQueue /\ IdleTree

SpecConnect == InitConnectOnly /\ [][NextConnect]_vars

\* the timer of context.WithTimeout fires, and a goroutine blocked in a select
\* runs once a case of it is ready
ConnectFairness ==
    /\ \A a \in Attempts : WF_vars(Timeout(a))
    /\ WF_vars(ConnectReceive)
    /\ WF_vars(ConnectTimeout)

SpecConnectLive == SpecConnect /\ ConnectFairness

\* every worker goroutine is scheduled again and again, and the transfer call
\* and the completion callback return
ManagerFairness ==
    \A t \in Tasks :
        /\ WF_vars(Acquire(t))
        /\ WF_vars(SetRunning(t))
        /\ WF_vars(\E err \in BOOLEAN, out \in {"absent", "partial", "complete"} :
                       TransferReturns(t, err, out))
        /\ WF_vars(LoadCanceled(t))
        /\ WF_vars(SetTerminal(t))
        /\ WF_vars(Notify(t))
        /\ WF_vars(Release(t))

\* the calls that start and cancel workers, and the workers; RemoveTask, which
\* only takes a task out of the map, and the Add calls whose workers run the
\* same steps as these two are left out
NextLive ==
    \/ \E t \in Tasks : AddDownloadTask(t)
    \/ \E t \in Tasks, ok \in BOOLEAN : AddUploadTask(t, ok)
    \/ \E t \in Tasks : Acquire(t)
    \/ \E t \in Tasks : SetRunning(t)
    \/ \E t \in Tasks, err \in BOOLEAN, out \in {"absent", "partial", "complete"} :
           TransferReturns(t, err, out)
    \/ \E t \in Tasks : LoadCanceled(t)
    \/ \E t \in Tasks : SetTerminal(t)
    \/ \E t \in Tasks : Notify(t)
    \/ \E t \in Tasks : Release(t)
    \/ \E id \in ClockReadings : CancelTask(id)
    \/ Tick

SpecLive == Init /\ [][NextLive]_vars /\ ManagerFairness

InitTransferOnly == IdleManager /\ IdleConnect /\ InitTransfer /\ IdleServer /\ IdleProgress
    /\ IdlePacked /\ IdleAuto /\ IdleQueue /\ IdleTree

SpecTransfer == InitTransferOnly /\ [][NextTransfer]_vars

InitChunksOnly == IdleManager /\ IdleConnect /\ InitChunks /\ IdleServer /\ IdleProgress
    /\ IdlePacked /\ IdleAuto /\ IdleQueue /\ IdleTree

SpecChunks == InitChunksOnly /\ [][NextChunks]_vars

InitServerOnly == IdleManager /\ IdleConnect /\ IdleTransfer /\ InitServer /\ IdleProgress
    /\ IdlePacked /\ IdleAuto /\ IdleQueue /\ IdleTree

SpecServer == InitServerOnly /\ [][NextServer]_vars

\* the sizes are those of SpecTransfer's files; nothing else of the transfer
\* component moves
InitProgressOnly ==
    /\ IdleManager /\ IdleConnect /\ IdleServer
    /\ fileSize \in ProgressSizes
    /\ srvFile = Absent /\ locFile = Absent /\ preLocal = Absent
    /\ IdleTransferCalls
    /\ InitProgress
    /\ IdlePacked /\ IdleAuto /\ IdleQueue /\ IdleTree

SpecProgress == InitProgressOnly /\ [][NextProgress]_vars

\* the goroutines of a parallel transfer are scheduled again and again; the
\* reporter's select, which picks among its ready cases at random, does not
\* pass over the closed progressDone for ever
ProgressFairness ==
    /\ \A i \in Chunks : WF_vars(\E ok \in BOOLEAN : ChunkWorker(i, ok))
    /\ WF_vars(WaitAndClose)
    /\ WF_vars(CollectResult)
    /\ WF_vars(ResultsClosed)
    /\ WF_vars(TickerReport)
    /\ SF_vars(TickerExit)

SpecProgressLive == SpecProgress /\ ProgressFairness

InitPackedOnly ==
    /\ IdleManager /\ IdleConnect /\ IdleTransfer /\ IdleServer /\ IdleProgress
    /\ InitPacked
    /\ IdleAuto /\ IdleQueue /\ IdleTree

SpecPacked == InitPackedOnly /\ [][NextPacked]_vars

InitAutoOnly ==
    /\ IdleManager /\ IdleConnect /\ IdleTransfer /\ IdleServer /\ IdleProgress
    /\ IdlePacked /\ IdleQueue /\ IdleTree
    /\ InitAuto

SpecAuto == InitAutoOnly /\ [][NextAuto]_vars

\* the removal goroutines are scheduled and their timers fire
RemovalFairness ==
    \A h \in Handlers :
        /\ WF_vars(\E ok \in BOOLEAN : RemoveArchiveTry(h, ok))
        /\ WF_vars(RemoveArchiveWake(h))

SpecAutoLive == SpecAuto /\ RemovalFairness

InitQueueOnly ==
    /\ IdleManager /\ IdleConnect /\ IdleTransfer /\ IdleServer /\ IdleProgress
    /\ IdlePacked /\ IdleAuto /\ IdleTree
    /\ InitQueue

InitTreeOnly ==
    /\ IdleManager /\ IdleConnect /\ IdleTransfer /\ IdleServer /\ IdleProgress
    /\ IdlePacked /\ IdleAuto /\ IdleQueue
    /\ InitTree

SpecTree == InitTreeOnly /\ [][NextTree]_vars

SpecQueue == InitQueueOnly /\ [][NextQueue]_vars

\* the ticker keeps firing, the loop keeps iterating and the main thread keeps
\* running what fyne.Do queued
SpecQueueLive ==
    /\ SpecQueue
    /\ WF_vars(TickerFires)
    /\ WF_vars(updateLoop)
    /\ WF_vars(updateLoopRemove)
    /\ \A t \in QueueTasks : WF_vars(TaskWidgetUpdate(t))

(***************************************************************************)
(* Properties.                                                             *)
(***************************************************************************)
Running == {t \in Tasks : task[t].Status = "Running"}

\* C1: the number of Running tasks never exceeds the Manager's limit (the
\* argument of NewManager, or 3 when it is <= 0), and a task that has not yet
\* acquired an admission slot is Pending.
C1_ConcurrencyCap ==
    /\ maxParallel \in {DefaultMaxParallel} \cup (1..MaxLimitArg)
    /\ Cardinality(Running) <= maxParallel
    /\ \A t \in Tasks : tpc[t] \in {"none", "acquire"} => task[t].Status = "Pending"

\* C1, its case: the limit is reached and a further task waits, Pending
C1_Witness ==
    /\ Cardinality(Running) = maxParallel
    /\ \E t \in Tasks : tpc[t] = "acquire" /\ t \in Registered

\* C3: when Connect has returned the timeout error and the dial goroutine has
\* ended, the session that goroutine made is not left open; when Connect
\* returns nil, Client.session is the open session of that call.
C3_NoLeakedSession ==
    /\ \A a \in Attempts :
           (outcome[a] = "timeout" /\ dpc[a] = "end") => sessState[a] # "open"
    /\ (cpc = "ret" /\ attempt > 0 /\ outcome[attempt] = "ok")
           => (session = attempt /\ sessState[attempt] = "open")

\* C7: a download task that was canceled while Running ends Canceled, and once
\* its worker has finished nothing exists at its LocalPath.
C7_CancelRunningDownload ==
    \A t \in Tasks :
        (task[t].Type = "download" /\ cancelRunning[t] /\ tpc[t] = "done")
            => (task[t].Status = "Canceled" /\ localFile[t] = "absent")

StatusMoves == {<<"Pending", "Running">>, <<"Running", "Completed">>,
                <<"Running", "Failed">>, <<"Running", "Canceled">>}

\* C10: a Task's Status changes only Pending->Running, Running->Completed,
\* Running->Failed or Running->Canceled (so a terminal Status is never left),
\* and no task is ever Paused.
C10_StatusTransitions ==
    /\ [](\A t \in Tasks : task[t].Status # "Paused")
    /\ [][\A t \in Tasks :
             task'[t].Status # task[t].Status
                 => <<task[t].Status, task'[t].Status>> \in StatusMoves]_vars

\* C10, its case: tasks have been canceled (before and after their end) and
\* one has ended in each of two terminal states
C10_Witness ==
    \E t, u \in Tasks :
        /\ task[t].Status = "Canceled" /\ tpc[t] = "done"
        /\ task[u].Status \in {"Completed", "Failed"} /\ task[u].Canceled

\* C2: once every chunk PUT of a parallel upload has been answered 200, the
\* server file is byte-identical to the source file, whatever the order in
\* which the HandleUpload instances opened and wrote it.
C2_ParallelUploadIntact ==
    (/\ fileSize >= defaultChunkSize
     /\ upc \in {"collect", "done"}
     /\ \A i \in 0..(numChunks(fileSize) - 1) : wpc[i] = "ok")
        => srvFile = File(Original(fileSize))

\* C4: with no I/O or transport failure and nothing at localPath beforehand,
\* UploadFile followed by DownloadFile both succeed and leave a local file
\* byte-identical to the original, with the same SHA-256.
C4_RoundTrip ==
    (upc = "done" /\ dlpc = "done" /\ ~faulted /\ preLocal = Absent)
        => /\ upResult = "ok"
           /\ dlResult = "ok"
           /\ locFile = File(Original(fileSize))
           /\ Hash(locFile.data) = Hash(Original(fileSize))

\* C5: when DownloadFile has returned success, the local file is
\* byte-identical to the remote file and has the hash the checksum endpoint
\* answers, whatever was at localPath before.
C5_DownloadIntact ==
    (dlpc = "done" /\ dlResult = "ok")
        => /\ locFile.exists
           /\ srvFile.exists
           /\ locFile.data = srvFile.data
           /\ Hash(locFile.data) = RemoteChecksum(srvFile)

\* the ranges sent so far are those of chunks 0, 1, ... in order: the first
\* starts at byte 0, each is non-empty and lies below size, each starts right
\* after the one before; once the loop has ended the last one ends at size-1
RangesPartition(r, size, loopEnded) ==
    LET sent == {i \in Chunks : r[i] # <<>>}
    IN /\ \A i \in sent : \A j \in 0..i : j \in sent
       /\ 0 \in sent => r[0][1] = 0
       /\ \A i \in sent : r[i][1] <= r[i][2] /\ r[i][2] <= size - 1
       /\ \A i \in sent : (i + 1) \in sent => r[i + 1][1] = r[i][2] + 1
       /\ loopEnded => \E i \in sent : (i + 1) \notin sent /\ r[i][2] = size - 1

\* C6: for a file of 4 MiB or more, the inclusive byte ranges the parallel
\* upload and the parallel download put on the wire, chunk by chunk, partition
\* [0, fileSize): they start at 0, are non-empty, follow one another without
\* gap or overlap and end at fileSize - 1; Content-Range names fileSize as the
\* total.
C6_ChunksPartition ==
    fileSize >= defaultChunkSize
        => /\ RangesPartition(putRange, fileSize, upc = "collect")
           /\ RangesPartition(getRange, fileSize, dlpc = "collect")
           /\ \A i \in Chunks : putRange[i] # <<>> => putRange[i][3] = fileSize

\* C6, its case: a size that is not a multiple of the chunk size has been
\* split into all 8 chunks, the last one shorter than the first
C6_Witness ==
    /\ upc = "collect"
    /\ putRange[numWorkers - 1] # <<>>
    /\ putRange[numWorkers - 1][2] - putRange[numWorkers - 1][1] < putRange[0][2]
    /\ putRange[0][2] + 1 > defaultChunkSize

C9_TraversalRejected ==
    lastEscapes => (lastStatus >= 400 /\ ~lastMutated)

\* C11: OnTaskCompleted is called at most once for a task, exactly once by
\* the time its worker has finished, and the Status, Error and Progress the
\* task has when the callback is called are terminal and final: they are the
\* values the task keeps.
C11_CallbackAfterFinal ==
    /\ notified <= 1
    /\ mpc = "done" => notified = 1
    /\ notified > 0 =>
          /\ atNotify.Status \in Terminal
          /\ ptask.Status = atNotify.Status
          /\ ptask.Error = atNotify.Error
          /\ ptask.Progress = atNotify.Progress

\* C12: while the task is Running, no step lowers Task.Progress or
\* Task.BytesDone.
C12_ProgressMonotone ==
    [][(ptask.Status = "Running" /\ ptask'.Status = "Running")
          => /\ ptask'.Progress >= ptask.Progress
             /\ ptask'.BytesDone >= ptask.BytesDone]_vars

\* a parallel download is the one DownloadFile makes for this remote file
ParallelDownload == HeadLength(srvFile) >= defaultChunkSize

WorkersFinished == \A i \in Chunks : gpc[i] \in {"none", "ok", "err"}

\* C13: once a parallel download has returned and all its chunk workers have
\* finished, the temp directory and every chunk file are gone; when a chunk
\* failed the call returned an error, the final file was neither created nor
\* overwritten, and no chunk was requested twice.
C13_TempDirGone ==
    (dlpc = "done" /\ ParallelDownload /\ WorkersFinished)
        => /\ ~tmpDir
           /\ \A i \in Chunks : ~tmpChunk[i].exists
           /\ (\E i \in Chunks : gpc[i] = "err")
                  => /\ dlResult = "err"
                     /\ dlCalls = 1 => locFile = preLocal
           /\ getCount <= dlCalls * numChunks(HeadLength(srvFile))

\* C14: the final file of a parallel download is written only when every
\* chunk worker has reported success, and it is then the chunks 0 .. n-1 in
\* index order, that is the remote file, whatever the order in which the
\* workers completed.
C14_MergedInIndexOrder ==
    [][(dlpc = "collect" /\ dlpc' # "collect")
          => \/ locFile' = locFile /\ dlResult' = "err"
             \/ /\ \A i \in 0..(numChunks(HeadLength(srvFile)) - 1) : gpc[i] = "ok"
                /\ locFile' = File(srvFile.data)
                /\ dlResult' = "ok"]_vars

\* C14, its case: three chunks whose workers completed in the order 2, 0, 1
\* have been merged
C14_Witness ==
    /\ dlpc = "done"
    /\ dlResult = "ok"
    /\ dlOrder = <<2, 0, 1>>
    /\ locFile = File(Original(fileSize))

\* C15: the single-stream download of a remote file whose size the local
\* file already has sends no GET, leaves the local file as it is and returns
\* success, each time it is run.
C15_ResumeIdempotent ==
    [][(/\ dlpc = "single"
        /\ locFile.exists
        /\ ByteLen(locFile.data) = HeadLength(srvFile))
          => /\ dlpc' = "done"
             /\ dlResult' = "ok"
             /\ locFile' = locFile
             /\ getCount' = getCount]_vars

\* C15, its case: the second of two downloads found the file the first one
\* had fetched with its one GET
C15_Witness ==
    /\ dlCalls = 2
    /\ dlpc = "done"
    /\ dlResult = "ok"
    /\ ~ParallelDownload
    /\ getCount = 1
    /\ locFile = srvFile

\* C16: against a peer with another passphrase (as against no peer at all)
\* Connect never returns success, Client.session stays nil and IsConnected
\* false, what it returns is the error of the result channel or the timeout
\* error, and every Connect that waits does return: the timeout of its
\* context ends the wait.
C16_WrongKeyFails ==
    /\ [](server # "ok" =>
             /\ session = 0
             /\ ~IsConnected
             /\ \A a \in Attempts : outcome[a] \in {"none", "error", "timeout"})
    /\ (server # "ok" /\ cpc = "wait") ~> (cpc = "ret")

\* C16, its case: with another passphrase one Connect has ended in the
\* timeout error and one in the error of the failed test read
C16_Witness ==
    /\ server = "wrongkey"
    /\ outcome[1] = "timeout"
    /\ outcome[2] = "error"

\* C17: on a client that is not connected, every operation that returns
\* returns "not connected" and opens no stream, and Close returns nil;
\* neither changes the client's session.
C17_NotConnected ==
    [][(~IsConnected /\ calls' # calls)
          => /\ lastCall'[2] = IF lastCall'[1] = "Close" THEN "nil"
                               ELSE "not connected"
             /\ streams' = streams
             /\ session' = session
             /\ sessState' = sessState]_vars

\* C17, its case: after a successful Connect and a Close, an operation has
\* been refused on the closed client
C17_Witness ==
    /\ session # 0
    /\ sessState[session] = "closed"
    /\ lastCall \in {<<op, "not connected">> : op \in Operations}
    /\ calls = MaxCalls

\* C18: of the sessions the client has made at most one is not closed, and
\* an open session of the client is the one Client.session names.
C18_OneLiveSession ==
    /\ Cardinality({a \in Attempts : sessState[a] = "open"}) <= 1
    /\ (cpc # "wait" /\ \A a \in Attempts : dpc[a] \in {"none", "end"})
           => \A a \in Attempts : sessState[a] = "open" => session = a

\* what the policy asks for: compress when enabled and the source is a
\* directory or a file of at least ThresholdBytes
PolicyCompresses ==
    config.Enabled /\ (info.IsDir \/ info.Size >= config.ThresholdBytes)

\* the positions of a call that has chosen the archive
PackedPositions == {"compress", "srvcompress"}

\* C19: a packed call that gets to its decision (the upload's os.Stat, the
\* download's stat request succeeded) chooses the archive exactly when pack
\* transfer is enabled and the source is a directory, whatever its size, or
\* a file of size >= ThresholdBytes, and the plain transfer otherwise; an
\* archive is created, locally or on the server, only in that case, so never
\* with pack transfer disabled.
C19_PackPolicy ==
    /\ []((madeLocal \/ madeRemote \/ shouldCompress) => PolicyCompresses)
    /\ [][(kpc = "idle" /\ kpc' \notin {"idle", "done", "nostat"})
            => /\ PolicyCompresses => kpc' \in PackedPositions
               /\ ~PolicyCompresses => kpc' = "plain"
               /\ shouldCompress' = PolicyCompresses]_vars

\* a file of exactly ThresholdBytes has gone over as an archive
C19_Witness ==
    /\ kpc = "done" /\ packErr = "nil"
    /\ config.Enabled /\ ~info.IsDir /\ info.Size = config.ThresholdBytes
    /\ madeLocal /\ transferred

\* C20: when a packed call has returned, os.Remove was called on the local
\* temporary archive if one was created, and the DELETE of the server-side
\* archive was sent if one was created; os.Remove was never called while the
\* handle on the archive was open; and a call whose archive went over and was
\* unpacked returns nil whether or not the removals succeeded.
C20_TempArchiveDeleted ==
    kpc = "done" =>
        /\ madeLocal => removeTried
        /\ madeRemote => deleteTried
        /\ ~removedOpen /\ ~fileOpen
        /\ transferred => packErr = "nil"

\* the tasks some Add*Task call has created
Added == {t \in Tasks : tpc[t] # "none"}

\* the tasks that hold an admission slot
Admitted ==
    {t \in Tasks :
        tpc[t] \in {"start", "transfer", "load", "store", "notify", "release"}}

\* C21: a task whose transfer returned an error and whose worker found the
\* cancellation flag unset ends Failed with Error set, in a step that changes
\* no other task, the registry or the semaphore; a task is Failed exactly when
\* its Error is set; the slots held are those of the workers between
\* admission and release, so a finished task holds none; and a Failed task
\* that RemoveTask has not removed is in the registry.
C21_FailedTask ==
    /\ [](\A t \in Tasks : task[t].Status = "Failed" <=> task[t].Error)
    /\ [](semaphore = Cardinality(Admitted))
    /\ [](\A t \in Tasks :
            (task[t].Status = "Failed" /\ t \notin removed) => t \in Registered)
    /\ [][\A t \in Tasks :
             (tpc[t] = "store" /\ tpc'[t] # "store"
                /\ transferErr[t] /\ ~sawCanceled[t])
                 => /\ task'[t].Status = "Failed" /\ task'[t].Error
                    /\ \A u \in Tasks \ {t} :
                           task'[u] = task[u] /\ tpc'[u] = tpc[u]
                    /\ registry' = registry /\ semaphore' = semaphore]_vars

\* C22: no two tasks created by one Manager have the same ID, and every
\* created task that RemoveTask has not removed is in the registry.
C22_UniqueTaskIDs ==
    /\ \A t, u \in Added : t # u => task[t].ID # task[u].ID
    /\ \A t \in Added : t \notin removed => t \in Registered

\* C23: on a client whose key is empty, the GetBlockCrypt call of every
\* Connect returns an error and derives a key from no passphrase at all, no
\* attempt calls kcp.DialWithOptions, and no Connect returns nil.
C23_EmptyKeyRejected ==
    key = "" =>
        /\ \A a \in Attempts :
               dpc[a] \notin {"none", "crypt"}
                   => /\ GetBlockCrypt(cryptBuild, key).err
                      /\ GetBlockCrypt(cryptBuild, key).pass = ""
        /\ dialed = {}
        /\ session = 0
        /\ \A a \in Attempts : outcome[a] \in {"none", "error", "timeout"}

OpenChunkHandlers == {i \in Chunks : wpc[i] = "opened"}

\* C26: at most one HandleUpload instance at a time is between os.OpenFile
\* and the close of the file the upload targets.
C26_OneWriterPerFile == Cardinality(OpenChunkHandlers) <= 1

\* C27: the loop removes a task only when it has been terminal for longer
\* than the grace period, never a Pending or Running one, and every task that
\* is terminal is removed in the end although the loop keeps refreshing it.
C27_TerminalAgedOut ==
    /\ [][\A t \in QueueTasks :
             (inManager[t] /\ ~inManager'[t])
                 => (qStatus[t] \in Terminal /\ sinceTerminal[t] > Grace)]_vars
    /\ \A t \in QueueTasks :
           (inManager[t] /\ qStatus[t] \in Terminal) ~> ~inManager[t]

\* C25: a task whose Canceled flag is set while it waits for the semaphore
\* performs no transfer: its worker comes out of the semaphore, observes the
\* flag and unwinds without starting the transfer call.
C25_CancelObserved ==
    \A t \in Tasks : cancelWaiting[t] => tpc[t] # "transfer"

\* the plan the claim words: ceil(a / b), max, 4 MiB = 4,194,304 bytes
Ceil(a, b) == IF a % b = 0 THEN a \div b ELSE a \div b + 1
Max(a, b) == IF a >= b THEN a ELSE b
FourMiB == 4194304
PlanChunkSize(size) == Max(Ceil(size, 8), FourMiB)
PlanChunks(size) == Ceil(size, PlanChunkSize(size))
PlanStart(size, i) == i * PlanChunkSize(size)
PlanEnd(size, i) == Min((i + 1) * PlanChunkSize(size), size)

\* C28: UploadFile and DownloadFile of an existing file take the
\* single-stream path exactly when the size is below 4 MiB and the parallel
\* path exactly when it is not; the parallel path asks for
\* ceil(size / chunkSize) chunks of chunkSize = max(ceil(size / 8), 4 MiB).
C28_PathAndChunkPlan ==
    /\ [][(upc = "idle" /\ upc' # "idle")
             => /\ upc' = "single" <=> fileSize < FourMiB
                /\ upc' = "spawn" <=> fileSize >= FourMiB]_vars
    /\ [][(dlCalls' # dlCalls /\ srvFile.exists)
             => /\ dlpc' = "single" <=> ByteLen(srvFile.data) < FourMiB
                /\ dlpc' = "spawn" <=> ByteLen(srvFile.data) >= FourMiB]_vars
    /\ [](upc = "collect"
            => \A i \in Chunks :
                  putRange[i] = IF i < PlanChunks(fileSize)
                                  THEN <<PlanStart(fileSize, i),
                                         PlanEnd(fileSize, i) - 1, fileSize>>
                                  ELSE <<>>)
    /\ [](dlpc = "collect"
            => \A i \in Chunks :
                  getRange[i] = IF i < PlanChunks(ByteLen(srvFile.data))
                                  THEN <<PlanStart(ByteLen(srvFile.data), i),
                                         PlanEnd(ByteLen(srvFile.data), i) - 1>>
                                  ELSE <<>>)

\* C29: once a parallel transfer has returned its error for the first failed
\* chunk, no worker that has not sent its chunk request yet sends it; and a
\* parallel transfer that returns nil has all its chunks done.
C29_RestAbandoned ==
    /\ [][(upc = "done" /\ upResult = "err")
             => \A i \in Chunks : wpc[i] = "put" => wpc'[i] = "put"]_vars
    /\ [][(dlpc \in {"removeall", "rmdir", "done"} /\ dlResult = "err")
             => \A i \in Chunks : gpc[i] = "get" => gpc'[i] = "get"]_vars
    /\ []((upc = "done" /\ upResult = "ok" /\ fileSize >= defaultChunkSize)
            => \A i \in 0..(numChunks(fileSize) - 1) : wpc[i] = "ok")
    /\ []((dlpc \in {"removeall", "rmdir", "done"} /\ dlResult = "ok"
             /\ HeadLength(srvFile) >= defaultChunkSize)
            => \A i \in 0..(numChunks(HeadLength(srvFile)) - 1) : gpc[i] = "ok")

\* a single-stream download that finds L bytes at localPath, 0 < L < size,
\* and meets no read error, is about to run / has just returned
ResumeStarts ==
    /\ dlpc = "single"
    /\ locFile.exists
    /\ 0 < ByteLen(locFile.data)
    /\ ByteLen(locFile.data) < HeadLength(srvFile)

\* C30: such a download sends Range: bytes=L- and writes the answer at offset
\* L, so that the first L bytes stay as they were and the rest is the remote
\* file from L on; it returns nil with the remote file's content when the L
\* bytes were the remote file's first L bytes and the checksum error when
\* they were not.
C30_ResumeAppends ==
    [][(ResumeStarts /\ dlpc' = "done" /\ ~faulted')
          => LET L == ByteLen(locFile.data)
                 size == HeadLength(srvFile)
             IN /\ getRange'[0] = <<L>>
                /\ locFile'.exists
                /\ Take(locFile'.data, L) = locFile.data
                /\ Drop(locFile'.data, L) = Slice(srvFile.data, L, size)
                /\ locFile.data = Take(srvFile.data, L)
                      => (dlResult' = "ok" /\ locFile'.data = srvFile.data)
                /\ locFile.data # Take(srvFile.data, L)
                      => (dlResult' = "err" /\ locFile'.data # srvFile.data)]_vars

\* a resumed download has returned nil, and one the checksum error
C30_Witness ==
    /\ dlpc = "done"
    /\ ~faulted
    /\ locFile.exists /\ preLocal.exists
    /\ getRange[0] = <<ByteLen(preLocal.data)>>
    /\ \/ dlResult = "ok" /\ preLocal.data = Take(srvFile.data, ByteLen(preLocal.data))
       \/ dlResult = "err" /\ preLocal.data # Take(srvFile.data, ByteLen(preLocal.data))

\* C31: every added task is admitted, leaves Pending, reaches a terminal
\* Status and gives its slot back, whatever the outcome of its transfer; when
\* all workers have ended no slot is held.
C31_EveryTaskFinishes ==
    /\ \A t \in Tasks :
           (tpc[t] = "acquire")
               ~> (tpc[t] = "done" /\ task[t].Status \in Terminal)
    /\ []((\A t \in Tasks : tpc[t] \in {"none", "done"}) => semaphore = 0)

\* with one slot, two tasks have both ended, one Failed or Canceled
C31_Witness ==
    /\ maxParallel = 1
    /\ \A t \in Tasks : tpc[t] = "done"
    /\ \E t \in Tasks : task[t].Status \in {"Failed", "Canceled"}
    /\ semaphore = 0

\* C32: a Completed task has Progress 1.0 (here: all fileSize bytes), and
\* once the Status is terminal no step changes Status, Progress, BytesDone
\* or Error, a late call of the progress callback included.
C32_TerminalFrozen ==
    /\ [](ptask.Status = "Completed" => ptask.Progress = fileSize)
    /\ [][ptask.Status \in Terminal
             => /\ ptask'.Status = ptask.Status
                /\ ptask'.Progress = ptask.Progress
                /\ ptask'.BytesDone = ptask.BytesDone
                /\ ptask'.Error = ptask.Error]_vars

\* C33: a handler answers 200 only when its io.Copy and its file.Sync have
\* returned without error, and a handler whose io.Copy or file.Sync failed
\* has answered an error status.
C33_SyncBeforeSuccess ==
    \A h \in Handlers :
        /\ xStatus[h] = 200 => (xCopied[h] = "ok" /\ xSynced[h] = "ok")
        /\ (xCopied[h] = "err" \/ xSynced[h] = "err") => xStatus[h] >= 400

\* one upload has been answered 200 and one, whose sync failed, 500
C33_Witness ==
    \E h, g \in Handlers :
        /\ xStatus[h] = 200 /\ xSynced[h] = "ok"
        /\ xStatus[g] = 500 /\ xSynced[g] = "err"

\* chunk workers started and not finished
UploadsInFlight == {i \in Chunks : wpc[i] \in {"put", "opened"}}
DownloadsInFlight == {i \in Chunks : gpc[i] \in {"get", "created"}}

\* C34: a file of 4 MiB or more is split into 1 .. 8 chunks, so the worker
\* loops start at most 8 goroutines, at most 8 chunk requests are in flight,
\* and the download workers never exceed the 8 slots of their semaphore.
C34_AtMostEightChunks ==
    fileSize >= defaultChunkSize
        => /\ numChunks(fileSize) \in 1..numWorkers
           /\ upI <= numWorkers /\ dlI <= numWorkers
           /\ upc = "collect" => upI = numChunks(fileSize)
           /\ dlpc = "collect" => dlI = numChunks(fileSize)
           /\ Cardinality(UploadsInFlight) <= numWorkers
           /\ Cardinality(DownloadsInFlight) <= numWorkers

\* a download of more than 32 MiB has all 8 workers in flight
C34_Witness ==
    /\ fileSize > numWorkers * defaultChunkSize
    /\ dlpc = "collect"
    /\ Cardinality(DownloadsInFlight) = numWorkers

\* C35: a chunk worker that is about to send its result finds room in the
\* results channel, also when the collector has returned on a failure; the
\* results channel is closed once, when all workers have ended, and
\* progressDone is closed once, by the time the call has returned; the
\* workers, the closing goroutine and the progress reporter all end.
C35_NoGoroutineLeft ==
    /\ [](\A i \in Chunks : cwpc[i] = "run" => Len(results) < resultsCap(fileSize))
    /\ [](resultsCloses <= 1 /\ doneCloses <= 1)
    /\ [](resultsCloses = 1 => \A i \in Chunks : cwpc[i] \in {"none", "end"})
    /\ []((mpc \in {"final", "returned", "notify", "done"} /\ tkpc # "none")
            => doneCloses = 1)
    /\ (mpc = "collect")
           ~> (/\ \A i \in Chunks : cwpc[i] \in {"none", "end"}
               /\ clpc = "end"
               /\ tkpc = "end")

\* the collector has returned on a failure while a result was still to be
\* sent, and all goroutines have ended
C35_Witness ==
    /\ callErr
    /\ Len(results) > 0
    /\ \A i \in Chunks : cwpc[i] \in {"none", "end"}
    /\ clpc = "end"
    /\ tkpc = "end"
    /\ doneCloses = 1

C37_PackTransparent ==
    (plpc = "done" /\ pkpc = "done") => srvPacked = srvPlain

\* the destinations an extraction is given
ExtractDests == {filepathJoin(rootDir, p) : p \in ReqPaths \cup SecondPaths}

\* r, the outcome of an extraction of an archive holding entry into dest from
\* the directories and files of the state, is confined to dest: what it
\* created lies at or below dest (or is a missing ancestor of dest, for the
\* MkdirAll of dest itself), it opened nothing but the archive elsewhere, and
\* an entry that resolves outside dest makes it fail and is not opened
ConfinedTo(r, archive, dest, entry) ==
    LET target == filepathJoin(dest, entry)
        Allowed(q) == IsUnder(q, dest) \/ q \in Prefixes(dest)
    IN /\ \A q \in (r.dirs \cup r.files) \ (dirs \cup files) : Allowed(q)
       /\ \A q \in r.files \ files : IsUnder(q, dest)
       /\ \A q \in r.touched \ {archive} : Allowed(q)
       /\ files \subseteq r.files /\ dirs \subseteq r.dirs
       /\ ~IsUnder(target, dest) =>
              (~r.ok /\ r.files = files /\ (target \in r.touched => target = archive))

\* C38: whatever the archive, the destination and the entry's name, ExtractTar,
\* ExtractZip and DecompressFromTarGz create and open files only at the
\* destination or below it, and fail without writing an entry that resolves
\* outside the destination; a request whose archive held such an entry is
\* answered with an error.
C38_ExtractionConfined ==
    /\ \A archive \in files, dest \in ExtractDests, entry \in EntryNames :
           /\ ConfinedTo(ExtractTar(dirs, files, archive, dest, entry),
                         archive, dest, entry)
           /\ ConfinedTo(ExtractZip(dirs, files, archive, dest, entry),
                         archive, dest, entry)
           /\ ConfinedTo(DecompressFromTarGz(dirs, files, archive, dest, entry),
                         archive, dest, entry)
    /\ (lastExtract.ran /\ ~IsUnder(filepathJoin(lastExtract.dest, lastExtract.entry),
                                     lastExtract.dest))
           => (~lastExtract.ok /\ lastStatus >= 400)

\* an archive with an entry that resolves outside the destination has been
\* extracted below the root, and the request was answered 500
C38_Witness ==
    /\ lastExtract.ran
    /\ lastExtract.entry = <<"..", "x">>
    /\ IsUnder(lastExtract.dest, rootDir)
    /\ lastStatus = 500
    /\ rootDir \in dirs

\* the delays before the second, third, ... attempt
Backoff == <<100, 200, 400, 800, 1600>>

\* C39: the goroutine that removes the archive calls os.Remove at most 5
\* times; the delays it has waited are 100, 200, 400, ... ms, one after each
\* failed attempt; an attempt that removes the archive or finds it gone is its
\* last; it ends; and the status the upload is answered with is 200 whatever
\* the attempts return, and does not change once written.
C39_BoundedRemoval ==
    /\ [](\A h \in Handlers :
             /\ rmTries[h] <= MaxRemoveTries
             /\ Len(rmSlept[h]) <= rmTries[h]
             /\ rmSlept[h] = SubSeq(Backoff, 1, Len(rmSlept[h]))
             /\ (rmpc[h] # "none" /\ xpc[h] = "done") => xStatus[h] = 200)
    /\ [][\A h \in Handlers :
             /\ (rmTries'[h] # rmTries[h] /\ rmSlept'[h] = rmSlept[h])
                    => (rmpc'[h] = "end" /\ ~arcFile')
             /\ rmpc[h] = "end" => (rmpc'[h] = "end" /\ rmTries'[h] = rmTries[h])
             /\ xStatus[h] # 0 => xStatus'[h] = xStatus[h]]_vars
    /\ \A h \in Handlers : (rmpc[h] = "try") ~> (rmpc[h] = "end")

\* one goroutine has given up after five failed attempts and the other has
\* removed the archive at its second attempt; both uploads were answered 200
C39_Witness ==
    \E h, g \in Handlers :
        /\ rmpc[h] = "end" /\ rmSlept[h] = Backoff
        /\ rmpc[g] = "end" /\ rmTries[g] = 2 /\ rmSlept[g] = <<100>>
        /\ ~arcFile
        /\ xStatus[h] = 200 /\ xStatus[g] = 200

====
